---- MODULE Spec2Model ----
(***************************************************************************)
(* State-machine model of the Velo on-chain programs:                      *)
(*   velo_mixer   - Merkle-tree mixing pool (deposit / withdraw)           *)
(*   velo         - PDA-nullifier pool with relayer, stealth and decoys    *)
(*   velo_stealth - stealth announcements and claims                       *)
(* Every instruction is one atomic action: the ledger runs a transaction   *)
(* to completion and discards every account change when it returns Err.   *)
(* The programs share no account, so a behaviour follows one of them; the  *)
(* velo program is followed in two groups of instructions that share only  *)
(* the pool and its vault: pool/relayer/stealth ("velo") and the decoy     *)
(* system with the ledger height ("velo_decoy").                           *)
(***************************************************************************)
EXTENDS Integers, Sequences, FiniteSets, TLC

VARIABLES
    program,          \* the instruction group the transactions belong to
    lamports,         \* ledger balance of every account
    pool,             \* velo_mixer: the MixerPool account
    velo_pool,        \* velo: the VeloPool account
    nullifier,        \* velo: Nullifier PDAs, keyed by nullifier hash
    relayer_state,    \* velo: RelayerState PDAs, keyed by relayer
    stealth_payment,  \* velo: StealthPayment PDAs, keyed by stealth hash
    decoy_config,     \* velo: the DecoyConfig PDA of the pool
    slot,             \* ledger height (Clock::get()?.slot)
    registry,         \* velo_stealth: the StealthRegistry PDA
    user_stealth,     \* velo_stealth: UserStealthMeta PDAs, keyed by owner
    announcement,     \* velo_stealth: StealthAnnouncement accounts
    payouts,          \* history: payouts made from the velo vault
    roots_produced,   \* history: the roots the mixer's insert has produced
    leaves_inserted,  \* history: the leaves given to insert, in order
    protocol,         \* velo_private_tx: the PrivateProtocol PDA
    nullifier_set,    \* velo_private_tx: the NullifierSet account
    confidential_note, \* velo: ConfidentialNote PDAs, keyed by commitment
    last              \* history: the last instruction and its result

vars == <<program, lamports, pool, velo_pool, nullifier, relayer_state,
          stealth_payment, decoy_config, slot, registry, user_stealth,
          announcement, payouts, roots_produced, leaves_inserted, protocol,
          nullifier_set, confidential_note, last>>

(***************************************************************************)
(* Bounds of the model                                                     *)
(***************************************************************************)
\* depth of the mixer's Merkle tree in the model (20 in the source)
TreeDepth == 2
\* length of the mixer's root ring buffer in the model (30 in the source)
HistorySize == 2
\* number of denominations the velo depositor can fund
MaxVeloDeposits == 2
\* highest ledger height the model reaches
MaxSlot == 6
\* bytes of a 32-byte value of velo kept in the model
BytesLen == 1
\* number of stealth payments the sender can fund
MaxAnnounced == 2
MaxPrivateTransfers == 3

(***************************************************************************)
(* Program constants                                                       *)
(***************************************************************************)
MERKLE_TREE_DEPTH == TreeDepth
ROOT_HISTORY_SIZE == HistorySize
POOL_0_1_SOL == 100000000
\* denomination the velo pool is created with (any u64 is accepted)
VeloDenomination == 250

(***************************************************************************)
(* Values                                                                  *)
(***************************************************************************)
\* 32-byte values of the mixer: <<k>> is a literal, <<l, r>> a hash output
Zero32 == <<0>>
Commitment1 == <<1>>
BogusRoot == <<9>>
N1 == <<11>>
N2 == <<12>>
Commitments == {Commitment1}
NullifierHashes == {N1, N2}

\* Pubkey::default() and the other identities
DefaultPubkey == "Default"
Admin == "Admin"
Depositor == "Depositor"
Recipients == {"A", "R"}
Relayers == {DefaultPubkey, "R"}
StealthHashes == {"s1"}
DecoyIndexes == 0..1
\* the PDA [b"stealth", stealth_hash] and the PDA [b"decoy_vault", .., index]
StealthPda(h) == "stealth_" \o h
DecoyVaultNames == <<"decoy_vault_0", "decoy_vault_1", "decoy_vault_2">>
DecoyVault(i) == DecoyVaultNames[i + 1]
Accounts == {"pool_vault", "velo_vault", Depositor, Admin, "A", "R", DefaultPubkey}
               \cup {StealthPda(h) : h \in StealthHashes}
               \cup {DecoyVault(i) : i \in DecoyIndexes}
               \cup {"stealth_account", "protocol_vault", "treasury"}

Pow2(n) == 2 ^ n

RangeOf(f) == {f[i] : i \in DOMAIN f}

(***************************************************************************)
(* velo_mixer: hashing and the Merkle tree                                 *)
(***************************************************************************)
\* faulty variant: every pair hashes to the same value
hash_pair_constant(left, right) == <<Zero32, Zero32>>

\* Poseidon over two inputs, as a free (collision-free, never zero) hash
hash_pair(left, right) == <<left, right>>

\* keccak over the concatenated public inputs, as a free hash
keccak_hash(inputs) == <<"keccak", inputs, 0>>

RECURSIVE ZerosUpTo(_)
\* zeros[0] = 0^32, zeros[i] = H(zeros[i-1], zeros[i-1])
ZerosUpTo(i) ==
    IF i = 0 THEN Zero32 ELSE hash_pair(ZerosUpTo(i - 1), ZerosUpTo(i - 1))

MerkleTree_new ==
    LET zeros == [i \in 0..MERKLE_TREE_DEPTH |-> ZerosUpTo(i)]
    IN  [levels |-> MERKLE_TREE_DEPTH,
         next_index |-> 0,
         root_history |-> [i \in 0..(ROOT_HISTORY_SIZE - 1) |-> Zero32],
         current_root_index |-> 0,
         filled_subtrees |-> zeros,
         zeros |-> zeros]

RECURSIVE InsertLoopForgetful(_, _, _, _, _)
\* faulty variant: a left node is not remembered in filled_subtrees
InsertLoopForgetful(tree, i, current_index, current_hash, filled) ==
    IF i >= tree.levels
    THEN [hash |-> current_hash, filled |-> filled]
    ELSE IF current_index % 2 = 0
         THEN InsertLoopForgetful(tree, i + 1, current_index \div 2,
                                  hash_pair(current_hash, tree.zeros[i]), filled)
         ELSE InsertLoopForgetful(tree, i + 1, current_index \div 2,
                                  hash_pair(filled[i], current_hash), filled)

RECURSIVE InsertLoop(_, _, _, _, _)
\* the for-loop of insert, from level i on
InsertLoop(tree, i, current_index, current_hash, filled) ==
    IF i >= tree.levels
    THEN [hash |-> current_hash, filled |-> filled]
    ELSE IF current_index % 2 = 0
         THEN InsertLoop(tree, i + 1, current_index \div 2,
                         hash_pair(current_hash, tree.zeros[i]),
                         [filled EXCEPT ![i] = current_hash])
         ELSE InsertLoop(tree, i + 1, current_index \div 2,
                         hash_pair(filled[i], current_hash),
                         filled)

\* faulty variant: the new root overwrites the current slot
MerkleTree_insert_in_place(tree, leaf) ==
    LET index == tree.next_index
        walk == InsertLoop(tree, 0, index, leaf, tree.filled_subtrees)
    IN  [index |-> index,
         tree |-> [tree EXCEPT
                     !.filled_subtrees = walk.filled,
                     !.root_history = [@ EXCEPT ![tree.current_root_index] = walk.hash],
                     !.next_index = index + 1]]

MerkleTree_insert(tree, leaf) ==
    LET index == tree.next_index
        walk == InsertLoop(tree, 0, index, leaf, tree.filled_subtrees)
        new_root_index == (tree.current_root_index + 1) % ROOT_HISTORY_SIZE
    IN  [index |-> index,
         tree |-> [tree EXCEPT
                     !.filled_subtrees = walk.filled,
                     !.current_root_index = new_root_index,
                     !.root_history = [@ EXCEPT ![new_root_index] = walk.hash],
                     !.next_index = index + 1]]

\* faulty variant: the zero-root early return is missing
is_known_root_without_zero_check(tree, root) ==
    root \in RangeOf(tree.root_history)

\* faulty variant: any non-zero value passes, the history is not consulted
is_known_root_without_history(tree, root) ==
    root # Zero32

is_known_root(tree, root) ==
    IF root = Zero32 THEN FALSE
    ELSE root \in RangeOf(tree.root_history)

get_current_root(tree) == tree.root_history[tree.current_root_index]

(***************************************************************************)
(* velo_mixer: proofs                                                      *)
(***************************************************************************)
\* a ZKProof, each part either all-zero bytes (0) or not (1)
ZKProofs == {[a |-> 0, b |-> 0, c |-> 0],
             [a |-> 1, b |-> 1, c |-> 1],
             [a |-> 0, b |-> 1, c |-> 1]}

\* faulty variant: a proof is refused only when all three components are zero
mixer_verify_proof_any_nonzero(proof, root, nullifier_hash, recipient, relayer, fee) ==
    proof.a # 0 \/ proof.b # 0 \/ proof.c # 0

mixer_verify_proof(proof, root, nullifier_hash, recipient, relayer, fee) ==
    IF proof.a = 0 \/ proof.b = 0 \/ proof.c = 0 THEN FALSE
    ELSE LET public_inputs == <<root, nullifier_hash, recipient, relayer, fee>>
             input_hash == keccak_hash(public_inputs)
         IN  input_hash # Zero32

(***************************************************************************)
(* The ledger                                                              *)
(***************************************************************************)
\* transfer(from, to, amount): the balances after the move
\* faulty variant: the receiver is credited and the sender is not debited
TransferWithoutDebit(lam, from, to, amount) ==
    [lam EXCEPT ![to] = @ + amount]

Transfer(lam, from, to, amount) ==
    LET debited == [lam EXCEPT ![from] = @ - amount]
    IN  [debited EXCEPT ![to] = @ + amount]

(***************************************************************************)
(* velo_mixer: instructions                                                *)
(***************************************************************************)
MixerDenominations == {POOL_0_1_SOL, 1000000}
MixerFees == {0, 1, POOL_0_1_SOL + 1}

UninitializedPool ==
    [is_initialized |-> FALSE,
     authority |-> DefaultPubkey,
     denomination |-> 0,
     merkle_tree |-> MerkleTree_new,
     nullifier_hashes |-> <<>>,
     total_deposits |-> 0,
     total_withdrawals |-> 0,
     is_active |-> FALSE]

\* every 32-byte value a caller may pass as a root
RootCandidates ==
    {Zero32, BogusRoot} \cup RangeOf(roots_produced)

\* faulty variant: an existing pool account is initialised again
mixer_initialize_pool_again(p, authority, denomination) ==
    IF denomination # POOL_0_1_SOL
    THEN [result |-> "InvalidDenomination", pool |-> p]
    ELSE [result |-> "Ok",
          pool |-> [is_initialized |-> TRUE,
                    authority |-> authority,
                    denomination |-> denomination,
                    merkle_tree |-> MerkleTree_new,
                    nullifier_hashes |-> <<>>,
                    total_deposits |-> 0,
                    total_withdrawals |-> 0,
                    is_active |-> TRUE]]

mixer_initialize_pool(p, authority, denomination) ==
    IF p.is_initialized
    THEN [result |-> "AccountAlreadyInUse", pool |-> p]
    ELSE IF denomination # POOL_0_1_SOL
    THEN [result |-> "InvalidDenomination", pool |-> p]
    ELSE [result |-> "Ok",
          pool |-> [is_initialized |-> TRUE,
                    authority |-> authority,
                    denomination |-> denomination,
                    merkle_tree |-> MerkleTree_new,
                    nullifier_hashes |-> <<>>,
                    total_deposits |-> 0,
                    total_withdrawals |-> 0,
                    is_active |-> TRUE]]

\* a handler's return: the error code or Ok, the account data as the handler
\* left it, and whether the withdrawal gate (root and proof) was passed
MixerErr(code, p, lam) == [result |-> code, pool |-> p, lamports |-> lam, gate |-> "none"]

\* faulty variant: the capacity of the tree is not looked at
tree_has_room_always(tree) == TRUE

\* pool.merkle_tree.next_index < (1 << MERKLE_TREE_DEPTH)
tree_has_room(tree) == tree.next_index < Pow2(MERKLE_TREE_DEPTH)

\* faulty variant: the deposit starts a new nullifier registry
mixer_deposit_clearing_registry(p, lam, depositor, commitment) ==
    IF ~p.is_initialized THEN MixerErr("AccountNotInitialized", p, lam)
    ELSE IF ~p.is_active THEN MixerErr("PoolInactive", p, lam)
    ELSE IF ~tree_has_room(p.merkle_tree)
    THEN MixerErr("MerkleTreeFull", p, lam)
    ELSE IF lam[depositor] < p.denomination
    THEN MixerErr("InsufficientFunds", p, lam)
    ELSE LET ins == MerkleTree_insert(p.merkle_tree, commitment)
         IN  [result |-> "Ok",
              pool |-> [p EXCEPT !.merkle_tree = ins.tree,
                                 !.nullifier_hashes = <<>>,
                                 !.total_deposits = @ + 1],
              lamports |-> Transfer(lam, depositor, "pool_vault", p.denomination),
              gate |-> "none"]

mixer_deposit(p, lam, depositor, commitment) ==
    IF ~p.is_initialized THEN MixerErr("AccountNotInitialized", p, lam)
    ELSE IF ~p.is_active THEN MixerErr("PoolInactive", p, lam)
    ELSE IF ~tree_has_room(p.merkle_tree)
    THEN MixerErr("MerkleTreeFull", p, lam)
    ELSE IF lam[depositor] < p.denomination
    THEN MixerErr("InsufficientFunds", p, lam)
    ELSE LET ins == MerkleTree_insert(p.merkle_tree, commitment)
         IN  [result |-> "Ok",
              pool |-> [p EXCEPT !.merkle_tree = ins.tree,
                                 !.total_deposits = @ + 1],
              lamports |-> Transfer(lam, depositor, "pool_vault", p.denomination),
              gate |-> "none"]

\* faulty variant: the registry lookup never finds the hash
nullifier_hashes_contains_nothing(hashes, nullifier_hash) == FALSE

\* faulty variant: the hash is not appended
nullifier_hashes_push_skipped(hashes, nullifier_hash) == hashes

\* faulty variant: the fee is moved even to the default relayer
pays_relayer_even_default(fee, relayer) == fee > 0

\* faulty variant: any recorded hash makes the lookup succeed
nullifier_hashes_contains_any(hashes, nullifier_hash) == hashes # <<>>

\* pool.nullifier_hashes.contains(&nullifier_hash)
nullifier_hashes_contains(hashes, nullifier_hash) == nullifier_hash \in RangeOf(hashes)

\* faulty variant: the hash is put in front of the recorded ones
nullifier_hashes_push_front(hashes, nullifier_hash) == <<nullifier_hash>> \o hashes

\* pool.nullifier_hashes.push(nullifier_hash)
nullifier_hashes_push(hashes, nullifier_hash) == Append(hashes, nullifier_hash)

\* fee > 0 && relayer != Pubkey::default()
pays_relayer(fee, relayer) == fee > 0 /\ relayer # DefaultPubkey

\* faulty variant: the root is not looked up in the history
mixer_withdraw_any_root(p, lam, proof, root, nullifier_hash, recipient, relayer, fee) ==
    IF ~p.is_initialized THEN MixerErr("AccountNotInitialized", p, lam)
    ELSE IF ~p.is_active THEN MixerErr("PoolInactive", p, lam)
    ELSE IF nullifier_hashes_contains(p.nullifier_hashes, nullifier_hash)
    THEN MixerErr("NullifierAlreadyUsed", p, lam)
    ELSE IF ~mixer_verify_proof(proof, root, nullifier_hash, recipient, relayer, fee)
    THEN MixerErr("InvalidProof", p, lam)
    ELSE LET pushed == [p EXCEPT !.nullifier_hashes =
                                    nullifier_hashes_push(@, nullifier_hash)]
         IN  IF fee > p.denomination
             THEN [result |-> "FeeExceedsDenomination", pool |-> pushed,
                   lamports |-> lam, gate |-> "passed"]
             ELSE LET withdrawal_amount == p.denomination - fee
                      lam1 == Transfer(lam, "pool_vault", recipient, withdrawal_amount)
                      lam2 == IF pays_relayer(fee, relayer)
                              THEN Transfer(lam1, "pool_vault", relayer, fee)
                              ELSE lam1
                  IN  IF lam2["pool_vault"] < 0
                      THEN [result |-> "InsufficientFunds", pool |-> pushed,
                            lamports |-> lam, gate |-> "passed"]
                      ELSE [result |-> "Ok",
                            pool |-> [pushed EXCEPT !.total_withdrawals = @ + 1],
                            lamports |-> lam2, gate |-> "passed"]

\* faulty variant: the root is looked up before the nullifier
mixer_withdraw_root_first(p, lam, proof, root, nullifier_hash, recipient, relayer, fee) ==
    IF ~p.is_initialized THEN MixerErr("AccountNotInitialized", p, lam)
    ELSE IF ~p.is_active THEN MixerErr("PoolInactive", p, lam)
    ELSE IF ~is_known_root(p.merkle_tree, root)
    THEN MixerErr("InvalidMerkleRoot", p, lam)
    ELSE IF nullifier_hashes_contains(p.nullifier_hashes, nullifier_hash)
    THEN MixerErr("NullifierAlreadyUsed", p, lam)
    ELSE IF ~mixer_verify_proof(proof, root, nullifier_hash, recipient, relayer, fee)
    THEN MixerErr("InvalidProof", p, lam)
    ELSE LET pushed == [p EXCEPT !.nullifier_hashes =
                                    nullifier_hashes_push(@, nullifier_hash)]
         IN  IF fee > p.denomination
             THEN [result |-> "FeeExceedsDenomination", pool |-> pushed,
                   lamports |-> lam, gate |-> "passed"]
             ELSE LET withdrawal_amount == p.denomination - fee
                      lam1 == Transfer(lam, "pool_vault", recipient, withdrawal_amount)
                      lam2 == IF pays_relayer(fee, relayer)
                              THEN Transfer(lam1, "pool_vault", relayer, fee)
                              ELSE lam1
                  IN  IF lam2["pool_vault"] < 0
                      THEN [result |-> "InsufficientFunds", pool |-> pushed,
                            lamports |-> lam, gate |-> "passed"]
                      ELSE [result |-> "Ok",
                            pool |-> [pushed EXCEPT !.total_withdrawals = @ + 1],
                            lamports |-> lam2, gate |-> "passed"]

\* the handler up to its return; on Err the record holds the account data
\* as the handler left it, which the ledger then discards
mixer_withdraw(p, lam, proof, root, nullifier_hash, recipient, relayer, fee) ==
    IF ~p.is_initialized THEN MixerErr("AccountNotInitialized", p, lam)
    ELSE IF ~p.is_active THEN MixerErr("PoolInactive", p, lam)
    ELSE IF nullifier_hashes_contains(p.nullifier_hashes, nullifier_hash)
    THEN MixerErr("NullifierAlreadyUsed", p, lam)
    ELSE IF ~is_known_root(p.merkle_tree, root)
    THEN MixerErr("InvalidMerkleRoot", p, lam)
    ELSE IF ~mixer_verify_proof(proof, root, nullifier_hash, recipient, relayer, fee)
    THEN MixerErr("InvalidProof", p, lam)
    ELSE LET pushed == [p EXCEPT !.nullifier_hashes =
                                    nullifier_hashes_push(@, nullifier_hash)]
         IN  IF fee > p.denomination
             THEN [result |-> "FeeExceedsDenomination", pool |-> pushed,
                   lamports |-> lam, gate |-> "passed"]
             ELSE LET withdrawal_amount == p.denomination - fee
                      lam1 == Transfer(lam, "pool_vault", recipient, withdrawal_amount)
                      lam2 == IF pays_relayer(fee, relayer)
                              THEN Transfer(lam1, "pool_vault", relayer, fee)
                              ELSE lam1
                  IN  IF lam2["pool_vault"] < 0
                      THEN [result |-> "InsufficientFunds", pool |-> pushed,
                            lamports |-> lam, gate |-> "passed"]
                      ELSE [result |-> "Ok",
                            pool |-> [pushed EXCEPT !.total_withdrawals = @ + 1],
                            lamports |-> lam2, gate |-> "passed"]

\* faulty variant: the signer is not compared with pool.authority
mixer_set_pool_status_by_anyone(p, signer, is_active) ==
    IF ~p.is_initialized
    THEN [result |-> "AccountNotInitialized", pool |-> p]
    ELSE [result |-> "Ok", pool |-> [p EXCEPT !.is_active = is_active]]

mixer_set_pool_status(p, signer, is_active) ==
    IF ~p.is_initialized
    THEN [result |-> "AccountNotInitialized", pool |-> p]
    ELSE IF p.authority # signer
    THEN [result |-> "ConstraintHasOne", pool |-> p]
    ELSE [result |-> "Ok", pool |-> [p EXCEPT !.is_active = is_active]]

\* what the ledger keeps of a transaction: everything on Ok, nothing on Err
Committed(res, before) == IF res.result = "Ok" THEN res ELSE before

\* every withdraw transaction a caller can submit to the mixer
WithdrawRequests ==
    [proof : ZKProofs, root : RootCandidates, nullifier_hash : NullifierHashes,
     recipient : Recipients, relayer : Relayers, fee : MixerFees]

\* the mixer's withdraw handler on request q in the current state
WithdrawOf(p, lam, q) ==
    mixer_withdraw(p, lam, q.proof, q.root, q.nullifier_hash, q.recipient,
                   q.relayer, q.fee)

VeloUnchanged ==
    UNCHANGED <<velo_pool, nullifier, relayer_state, stealth_payment,
                decoy_config, slot, payouts, confidential_note>>
StealthUnchanged == UNCHANGED <<registry, user_stealth, announcement>>
PrivateTxUnchanged == UNCHANGED <<protocol, nullifier_set>>

MixerInitializePool ==
    /\ program = "velo_mixer"
    /\ \E authority \in {Admin}, denomination \in MixerDenominations :
         LET res == mixer_initialize_pool(pool, authority, denomination)
         IN  /\ pool' = Committed(res, [pool |-> pool]).pool
             /\ last' = [op |-> "initialize_pool", result |-> res.result, gate |-> "none"]
    /\ UNCHANGED <<program, lamports, roots_produced, leaves_inserted>>
    /\ VeloUnchanged /\ StealthUnchanged /\ PrivateTxUnchanged

MixerDeposit ==
    /\ program = "velo_mixer"
    /\ \E depositor \in {Depositor, Admin}, commitment \in Commitments :
         LET res == mixer_deposit(pool, lamports, depositor, commitment)
             kept == Committed(res, [pool |-> pool, lamports |-> lamports])
         IN  /\ pool' = kept.pool
             /\ lamports' = kept.lamports
             /\ roots_produced' =
                    IF res.result = "Ok"
                    THEN Append(roots_produced, get_current_root(res.pool.merkle_tree))
                    ELSE roots_produced
             /\ leaves_inserted' =
                    IF res.result = "Ok"
                    THEN Append(leaves_inserted, commitment)
                    ELSE leaves_inserted
             /\ last' = [op |-> "deposit", result |-> res.result, gate |-> res.gate]
    /\ UNCHANGED program
    /\ VeloUnchanged /\ StealthUnchanged /\ PrivateTxUnchanged

\* faulty variant: the account data of a failed withdraw is kept
MixerWithdrawWithoutRollback ==
    /\ program = "velo_mixer"
    /\ \E q \in WithdrawRequests :
         LET res == WithdrawOf(pool, lamports, q)
         IN  /\ pool' = res.pool
             /\ lamports' = res.lamports
             /\ last' = [op |-> "withdraw", result |-> res.result, gate |-> res.gate]
    /\ UNCHANGED <<program, roots_produced, leaves_inserted>>
    /\ VeloUnchanged /\ StealthUnchanged /\ PrivateTxUnchanged

MixerWithdraw ==
    /\ program = "velo_mixer"
    /\ \E q \in WithdrawRequests :
         LET res == WithdrawOf(pool, lamports, q)
             kept == Committed(res, [pool |-> pool, lamports |-> lamports])
         IN  /\ pool' = kept.pool
             /\ lamports' = kept.lamports
             /\ last' = [op |-> "withdraw", result |-> res.result, gate |-> res.gate]
    /\ UNCHANGED <<program, roots_produced, leaves_inserted>>
    /\ VeloUnchanged /\ StealthUnchanged /\ PrivateTxUnchanged

\* withdraw with the fee at its two ends: nothing, or the whole denomination
BoundaryFees == {0, POOL_0_1_SOL}

BoundaryWithdrawRequests ==
    [proof : ZKProofs, root : RootCandidates, nullifier_hash : NullifierHashes,
     recipient : Recipients, relayer : Relayers, fee : BoundaryFees]

MixerWithdrawAtBoundary ==
    /\ program = "velo_mixer"
    /\ \E q \in BoundaryWithdrawRequests :
         LET res == WithdrawOf(pool, lamports, q)
             kept == Committed(res, [pool |-> pool, lamports |-> lamports])
         IN  /\ pool' = kept.pool
             /\ lamports' = kept.lamports
             /\ last' = [op |-> "withdraw", result |-> res.result, gate |-> res.gate]
    /\ UNCHANGED <<program, roots_produced, leaves_inserted>>
    /\ VeloUnchanged /\ StealthUnchanged /\ PrivateTxUnchanged

MixerSetPoolStatus ==
    /\ program = "velo_mixer"
    /\ \E signer \in {Admin, "A"}, is_active \in BOOLEAN :
         LET res == mixer_set_pool_status(pool, signer, is_active)
         IN  /\ pool' = Committed(res, [pool |-> pool]).pool
             /\ last' = [op |-> "set_pool_status", result |-> res.result, gate |-> "none"]
    /\ UNCHANGED <<program, lamports, roots_produced, leaves_inserted>>
    /\ VeloUnchanged /\ StealthUnchanged /\ PrivateTxUnchanged

MixerNext ==
    \/ MixerInitializePool
    \/ MixerDeposit
    \/ MixerWithdraw
    \/ MixerSetPoolStatus

(***************************************************************************)
(* velo: roots                                                             *)
(***************************************************************************)
RECURSIVE BitXor(_, _, _)
\* a ^ b on the low `bits` bits
BitXor(a, b, bits) ==
    IF bits = 0 THEN 0
    ELSE (((a % 2) + (b % 2)) % 2) + 2 * BitXor(a \div 2, b \div 2, bits - 1)

\* [u8; 32] values of velo, as BytesLen bytes
VeloZero == [i \in 1..BytesLen |-> 0]
VeloCommitments == {[i \in 1..BytesLen |-> 1], VeloZero}

compute_new_root(commitment, index) ==
    [i \in 1..BytesLen |-> BitXor(commitment[i], index % 256, 8)]

\* the stub: logs and returns true
velo_verify_proof(proof, merkle_root, nullifier_hash, recipient, denomination) == TRUE

(***************************************************************************)
(* velo: accounts                                                          *)
(***************************************************************************)
VeloSigners == {"R", "A"}
VeloFees == {0, 2, 3}
NumVaultRequests == {1, 9}
ShuffleAmounts == {100}

NoRelayerState ==
    [is_initialized |-> FALSE, relayer |-> DefaultPubkey, total_relayed |-> 0,
     total_fees |-> 0, is_active |-> FALSE]
NoStealthPayment ==
    [is_initialized |-> FALSE, stealth_hash |-> "", ephemeral_pubkey |-> "",
     amount |-> 0, pool_denomination |-> 0, claimed |-> FALSE]
NoVeloPool ==
    [is_initialized |-> FALSE, authority |-> DefaultPubkey, denomination |-> 0,
     merkle_root |-> VeloZero, next_index |-> 0, total_deposits |-> 0]
NoDecoyConfig ==
    [is_initialized |-> FALSE, authority |-> DefaultPubkey, num_decoy_vaults |-> 0,
     total_shuffles |-> 0, last_shuffle_slot |-> 0, enabled |-> FALSE]

\* the accounts a velo instruction can touch
VeloState ==
    [velo_pool |-> velo_pool, nullifier |-> nullifier,
     relayer_state |-> relayer_state, stealth_payment |-> stealth_payment,
     decoy_config |-> decoy_config, confidential_note |-> confidential_note,
     lamports |-> lamports]

\* a handler's return: the error code or Ok, the accounts as the handler left
\* them, and whether the handler verified a proof on the way
Err(code, s) == [result |-> code, state |-> s, gate |-> "none"]
Ok(s) == [result |-> "Ok", state |-> s, gate |-> "none"]
Verified(res) == [res EXCEPT !.gate = "passed"]

\* the `init` constraint on the Nullifier PDA [b"nullifier", nullifier_hash]
nullifier_in_use(nullifiers, nullifier_hash) == nullifier_hash \in nullifiers

\* faulty variant: the cap is a tenth of the denomination
max_relayer_fee_tenth(denomination) == denomination \div 10

\* let max_fee = denomination / 100
max_relayer_fee(denomination) == denomination \div 100

(***************************************************************************)
(* velo: instructions                                                      *)
(***************************************************************************)
velo_initialize_pool(s, authority, denomination) ==
    IF s.velo_pool.is_initialized THEN Err("AccountAlreadyInUse", s)
    ELSE Ok([s EXCEPT !.velo_pool =
                [is_initialized |-> TRUE, authority |-> authority,
                 denomination |-> denomination, merkle_root |-> VeloZero,
                 next_index |-> 0, total_deposits |-> 0]])

\* faulty variant: the deposit is counted but next_index stays
velo_deposit_unindexed(s, depositor, commitment) ==
    IF ~s.velo_pool.is_initialized THEN Err("AccountNotInitialized", s)
    ELSE IF s.lamports[depositor] < s.velo_pool.denomination
    THEN Err("InsufficientFunds", s)
    ELSE Ok([s EXCEPT
               !.lamports = Transfer(@, depositor, "velo_vault", s.velo_pool.denomination),
               !.velo_pool.merkle_root = compute_new_root(commitment, s.velo_pool.next_index),
               !.velo_pool.total_deposits = @ + 1])

velo_deposit(s, depositor, commitment) ==
    IF ~s.velo_pool.is_initialized THEN Err("AccountNotInitialized", s)
    ELSE IF s.lamports[depositor] < s.velo_pool.denomination
    THEN Err("InsufficientFunds", s)
    ELSE Ok([s EXCEPT
               !.lamports = Transfer(@, depositor, "velo_vault", s.velo_pool.denomination),
               !.velo_pool.merkle_root = compute_new_root(commitment, s.velo_pool.next_index),
               !.velo_pool.next_index = @ + 1,
               !.velo_pool.total_deposits = @ + 1])

\* faulty variant: the confidential deposit is not counted
velo_confidential_deposit_uncounted(s, depositor, commitment, encrypted_amount) ==
    IF ~s.velo_pool.is_initialized THEN Err("AccountNotInitialized", s)
    ELSE IF commitment \in s.confidential_note THEN Err("AccountAlreadyInUse", s)
    ELSE IF s.lamports[depositor] < s.velo_pool.denomination
    THEN Err("InsufficientFunds", s)
    ELSE Ok([s EXCEPT
               !.lamports = Transfer(@, depositor, "velo_vault", s.velo_pool.denomination),
               !.confidential_note = @ \cup {commitment},
               !.velo_pool.merkle_root = compute_new_root(commitment, s.velo_pool.next_index),
               !.velo_pool.next_index = @ + 1])

\* the ConfidentialNote PDA [b"confidential_note", commitment] is created by
\* `init`; its encrypted_amount and timestamp are not read by any instruction
velo_confidential_deposit(s, depositor, commitment, encrypted_amount) ==
    IF ~s.velo_pool.is_initialized THEN Err("AccountNotInitialized", s)
    ELSE IF commitment \in s.confidential_note THEN Err("AccountAlreadyInUse", s)
    ELSE IF s.lamports[depositor] < s.velo_pool.denomination
    THEN Err("InsufficientFunds", s)
    ELSE Ok([s EXCEPT
               !.lamports = Transfer(@, depositor, "velo_vault", s.velo_pool.denomination),
               !.confidential_note = @ \cup {commitment},
               !.velo_pool.merkle_root = compute_new_root(commitment, s.velo_pool.next_index),
               !.velo_pool.next_index = @ + 1,
               !.velo_pool.total_deposits = @ + 1])

velo_withdraw(s, nullifier_hash, proof, recipient) ==
    IF ~s.velo_pool.is_initialized THEN Err("AccountNotInitialized", s)
    ELSE IF nullifier_in_use(s.nullifier, nullifier_hash)
    THEN Err("AccountAlreadyInUse", s)
    ELSE LET denomination == s.velo_pool.denomination
             inited == [s EXCEPT !.nullifier = @ \cup {nullifier_hash}]
         IN  IF ~velo_verify_proof(proof, s.velo_pool.merkle_root, nullifier_hash,
                                   recipient, denomination)
             THEN Err("InvalidProof", inited)
             ELSE IF s.lamports["velo_vault"] < denomination
             THEN Verified(Err("InsufficientFunds", inited))
             ELSE Verified(Ok([inited EXCEPT
                        !.lamports = Transfer(@, "velo_vault", recipient, denomination)]))

velo_withdraw_test(s, nullifier_hash, recipient) ==
    IF ~s.velo_pool.is_initialized THEN Err("AccountNotInitialized", s)
    ELSE LET denomination == s.velo_pool.denomination
         IN  IF s.lamports["velo_vault"] < denomination
             THEN Err("InsufficientFunds", s)
             ELSE Ok([s EXCEPT
                        !.lamports = Transfer(@, "velo_vault", recipient, denomination)])

\* faulty variant: a missing relayer record is not noticed
relayer_state_exists_always(relayer_states, key) == TRUE

\* Account<RelayerState>: the account at [b"relayer", key] holds a record
relayer_state_exists(relayer_states, key) == relayer_states[key].is_initialized

\* the instruction signed by relayer, presenting the record at its own seeds
velo_relayer_withdraw(s, relayer, nullifier_hash, fee, recipient) ==
    IF ~s.velo_pool.is_initialized THEN Err("AccountNotInitialized", s)
    ELSE IF ~relayer_state_exists(s.relayer_state, relayer)
    THEN Err("AccountNotInitialized", s)
    ELSE IF nullifier_in_use(s.nullifier, nullifier_hash)
    THEN Err("AccountAlreadyInUse", s)
    ELSE LET inited == [s EXCEPT !.nullifier = @ \cup {nullifier_hash}]
             rs == s.relayer_state[relayer]
             denomination == s.velo_pool.denomination
             max_fee == max_relayer_fee(denomination)
             recipient_amount == denomination - fee
         IN  IF ~rs.is_active THEN Err("RelayerNotActive", inited)
             ELSE IF rs.relayer # relayer THEN Err("UnauthorizedRelayer", inited)
             ELSE IF ~(fee <= max_fee) THEN Err("FeeTooHigh", inited)
             ELSE IF s.lamports["velo_vault"] < recipient_amount
             THEN Err("InsufficientFunds", inited)
             ELSE LET paid == [inited EXCEPT
                                 !.lamports = Transfer(@, "velo_vault", recipient,
                                                       recipient_amount)]
                  IN  IF fee > 0
                      THEN IF paid.lamports["velo_vault"] < fee
                           THEN Err("InsufficientFunds", paid)
                           ELSE Ok([paid EXCEPT
                                      !.lamports = Transfer(@, "velo_vault", relayer, fee)])
                      ELSE Ok(paid)

\* faulty variant: the presented record is taken without deriving its address
\* from the signer
velo_relayer_withdraw_presenting_unchecked(s, relayer_state_key, relayer, nullifier_hash, fee, recipient) ==
    velo_relayer_withdraw(s, relayer_state_key, nullifier_hash, fee, recipient)

\* the instruction signed by relayer, presenting the record of relayer_state_key:
\* seeds = [b"relayer", relayer.key()] admit the signer's own record only
velo_relayer_withdraw_presenting(s, relayer_state_key, relayer, nullifier_hash, fee, recipient) ==
    IF relayer_state_key = relayer
    THEN velo_relayer_withdraw(s, relayer, nullifier_hash, fee, recipient)
    ELSE IF ~s.velo_pool.is_initialized THEN Err("AccountNotInitialized", s)
    ELSE IF ~relayer_state_exists(s.relayer_state, relayer_state_key)
    THEN Err("AccountNotInitialized", s)
    ELSE IF nullifier_in_use(s.nullifier, nullifier_hash)
    THEN Err("AccountAlreadyInUse", s)
    ELSE Err("ConstraintSeeds", [s EXCEPT !.nullifier = @ \cup {nullifier_hash}])

velo_register_relayer(s, authority, relayer) ==
    IF s.relayer_state[relayer].is_initialized THEN Err("AccountAlreadyInUse", s)
    ELSE Ok([s EXCEPT !.relayer_state[relayer] =
                [is_initialized |-> TRUE, relayer |-> relayer, total_relayed |-> 0,
                 total_fees |-> 0, is_active |-> TRUE]])

velo_withdraw_to_stealth(s, stealth_hash, ephemeral_pubkey, nullifier_hash) ==
    IF ~s.velo_pool.is_initialized THEN Err("AccountNotInitialized", s)
    ELSE IF s.stealth_payment[stealth_hash].is_initialized
    THEN Err("AccountAlreadyInUse", s)
    ELSE LET denomination == s.velo_pool.denomination
             stored == [s EXCEPT !.stealth_payment[stealth_hash] =
                          [is_initialized |-> TRUE, stealth_hash |-> stealth_hash,
                           ephemeral_pubkey |-> ephemeral_pubkey,
                           amount |-> denomination,
                           pool_denomination |-> denomination, claimed |-> FALSE]]
         IN  IF s.lamports["velo_vault"] < denomination
             THEN Err("InsufficientFunds", stored)
             ELSE Ok([stored EXCEPT
                        !.lamports = Transfer(@, "velo_vault", StealthPda(stealth_hash),
                                              denomination)])

velo_claim_stealth(s, stealth_hash, recipient) ==
    IF ~s.stealth_payment[stealth_hash].is_initialized
    THEN Err("AccountNotInitialized", s)
    ELSE IF s.stealth_payment[stealth_hash].claimed THEN Err("AlreadyClaimed", s)
    ELSE LET amount == s.stealth_payment[stealth_hash].amount
             marked == [s EXCEPT !.stealth_payment[stealth_hash].claimed = TRUE]
         IN  IF s.lamports[StealthPda(stealth_hash)] < amount
             THEN Err("InsufficientFunds", marked)
             ELSE Ok([marked EXCEPT
                        !.lamports = Transfer(@, StealthPda(stealth_hash), recipient,
                                              amount)])

Min(a, b) == IF a < b THEN a ELSE b

\* faulty variant: the requested number of vaults is stored as given
velo_init_decoy_system_unclamped(s, authority, num_vaults) ==
    IF ~s.velo_pool.is_initialized THEN Err("AccountNotInitialized", s)
    ELSE IF s.decoy_config.is_initialized THEN Err("AccountAlreadyInUse", s)
    ELSE Ok([s EXCEPT !.decoy_config =
                [is_initialized |-> TRUE, authority |-> authority,
                 num_decoy_vaults |-> num_vaults, total_shuffles |-> 0,
                 last_shuffle_slot |-> 0, enabled |-> TRUE]])

velo_init_decoy_system(s, authority, num_vaults) ==
    IF ~s.velo_pool.is_initialized THEN Err("AccountNotInitialized", s)
    ELSE IF s.decoy_config.is_initialized THEN Err("AccountAlreadyInUse", s)
    ELSE Ok([s EXCEPT !.decoy_config =
                [is_initialized |-> TRUE, authority |-> authority,
                 num_decoy_vaults |-> Min(num_vaults, 8), total_shuffles |-> 0,
                 last_shuffle_slot |-> 0, enabled |-> TRUE]])

\* faulty variant: a shuffle two slots after the last one is let through
shuffle_spacing_met_at_two(current_slot, last_shuffle_slot) ==
    current_slot >= last_shuffle_slot + 2

\* current_slot > config.last_shuffle_slot + 2
shuffle_spacing_met(current_slot, last_shuffle_slot) ==
    current_slot > last_shuffle_slot + 2

\* faulty variant: a successful shuffle is not counted
velo_shuffle_uncounted(s, current_slot, decoy_index, amount, direction) ==
    IF ~s.velo_pool.is_initialized \/ ~s.decoy_config.is_initialized
    THEN Err("AccountNotInitialized", s)
    ELSE IF ~s.decoy_config.enabled THEN Err("DecoySystemDisabled", s)
    ELSE IF ~(decoy_index < s.decoy_config.num_decoy_vaults)
    THEN Err("InvalidDecoyVaultIndex", s)
    ELSE IF ~shuffle_spacing_met(current_slot, s.decoy_config.last_shuffle_slot)
    THEN Err("ShuffleRateLimited", s)
    ELSE LET from == IF direction THEN "velo_vault" ELSE DecoyVault(decoy_index)
             to == IF direction THEN DecoyVault(decoy_index) ELSE "velo_vault"
         IN  IF s.lamports[from] < amount THEN Err("InsufficientFunds", s)
             ELSE Ok([s EXCEPT
                        !.lamports = Transfer(@, from, to, amount),
                        !.decoy_config.last_shuffle_slot = current_slot])

velo_shuffle(s, current_slot, decoy_index, amount, direction) ==
    IF ~s.velo_pool.is_initialized \/ ~s.decoy_config.is_initialized
    THEN Err("AccountNotInitialized", s)
    ELSE IF ~s.decoy_config.enabled THEN Err("DecoySystemDisabled", s)
    ELSE IF ~(decoy_index < s.decoy_config.num_decoy_vaults)
    THEN Err("InvalidDecoyVaultIndex", s)
    ELSE IF ~shuffle_spacing_met(current_slot, s.decoy_config.last_shuffle_slot)
    THEN Err("ShuffleRateLimited", s)
    ELSE LET from == IF direction THEN "velo_vault" ELSE DecoyVault(decoy_index)
             to == IF direction THEN DecoyVault(decoy_index) ELSE "velo_vault"
         IN  IF s.lamports[from] < amount THEN Err("InsufficientFunds", s)
             ELSE Ok([s EXCEPT
                        !.lamports = Transfer(@, from, to, amount),
                        !.decoy_config.total_shuffles = @ + 1,
                        !.decoy_config.last_shuffle_slot = current_slot])

\* faulty variant: decoy vault 0 is credited and the main vault is not debited
velo_decoy_withdraw_minting(s) ==
    IF ~s.velo_pool.is_initialized \/ ~s.decoy_config.is_initialized
    THEN Err("AccountNotInitialized", s)
    ELSE Ok([s EXCEPT !.lamports[DecoyVault(0)] = @ + s.velo_pool.denomination])

\* faulty variant: the decoy deposit is booked like a real one
velo_decoy_deposit_counted(s, fake_commitment) ==
    IF ~s.velo_pool.is_initialized \/ ~s.decoy_config.is_initialized
    THEN Err("AccountNotInitialized", s)
    ELSE IF s.lamports[DecoyVault(0)] < s.velo_pool.denomination
    THEN Err("InsufficientFunds", s)
    ELSE Ok([s EXCEPT !.lamports = Transfer(@, DecoyVault(0), "velo_vault",
                                            s.velo_pool.denomination),
                      !.velo_pool.total_deposits = @ + 1,
                      !.velo_pool.next_index = @ + 1])

\* decoy vault 0 pays the denomination into the main vault
velo_decoy_deposit(s, fake_commitment) ==
    IF ~s.velo_pool.is_initialized \/ ~s.decoy_config.is_initialized
    THEN Err("AccountNotInitialized", s)
    ELSE IF ~s.decoy_config.enabled THEN Err("DecoySystemDisabled", s)
    ELSE LET denomination == s.velo_pool.denomination
         IN  IF s.lamports[DecoyVault(0)] < denomination
             THEN Err("InsufficientFunds", s)
             ELSE Ok([s EXCEPT !.lamports = Transfer(@, DecoyVault(0), "velo_vault",
                                                     denomination)])

\* the main vault pays the denomination into decoy vault 0
velo_decoy_withdraw(s) ==
    IF ~s.velo_pool.is_initialized \/ ~s.decoy_config.is_initialized
    THEN Err("AccountNotInitialized", s)
    ELSE IF ~s.decoy_config.enabled THEN Err("DecoySystemDisabled", s)
    ELSE LET denomination == s.velo_pool.denomination
         IN  IF s.lamports["velo_vault"] < denomination
             THEN Err("InsufficientFunds", s)
             ELSE Ok([s EXCEPT !.lamports = Transfer(@, "velo_vault", DecoyVault(0),
                                                     denomination)])

\* lamports anyone may send to a stealth PDA with a plain ledger transfer
TopUps == {7}

\* every withdraw and relayer-withdraw transaction a caller can submit to velo
VeloWithdrawRequests ==
    [nullifier_hash : NullifierHashes, proof : ZKProofs, recipient : Recipients]

VeloWithdrawOf(s, q) == velo_withdraw(s, q.nullifier_hash, q.proof, q.recipient)

RelayerWithdrawRequests ==
    [relayer : VeloSigners, nullifier_hash : NullifierHashes, fee : VeloFees,
     recipient : Recipients]

RelayerWithdrawOf(s, q) ==
    velo_relayer_withdraw(s, q.relayer, q.nullifier_hash, q.fee, q.recipient)

\* one velo transaction: the accounts are written back only on Ok
VeloStep(op, res, paid_out) ==
    LET kept == Committed(res, [state |-> VeloState]).state
    IN  /\ velo_pool' = kept.velo_pool
        /\ nullifier' = kept.nullifier
        /\ relayer_state' = kept.relayer_state
        /\ stealth_payment' = kept.stealth_payment
        /\ decoy_config' = kept.decoy_config
        /\ confidential_note' = kept.confidential_note
        /\ lamports' = kept.lamports
        /\ payouts' = IF res.result = "Ok" /\ paid_out THEN payouts + 1 ELSE payouts
        /\ last' = [op |-> op, result |-> res.result, gate |-> res.gate]
        /\ UNCHANGED <<program, pool, roots_produced, leaves_inserted, slot>>
        /\ StealthUnchanged /\ PrivateTxUnchanged

VeloInitializePool ==
    /\ program \in {"velo", "velo_decoy"}
    /\ \E denomination \in {VeloDenomination} :
        VeloStep("initialize_pool",
                 velo_initialize_pool(VeloState, Admin, denomination), FALSE)

VeloDeposit ==
    /\ program \in {"velo", "velo_decoy"}
    /\ \E depositor \in {Depositor}, commitment \in VeloCommitments :
        VeloStep("deposit", velo_deposit(VeloState, depositor, commitment), FALSE)

VeloConfidentialDeposit ==
    /\ program = "velo"
    /\ \E depositor \in {Depositor}, commitment \in VeloCommitments :
        VeloStep("confidential_deposit",
                 velo_confidential_deposit(VeloState, depositor, commitment, <<0>>), FALSE)

VeloWithdraw ==
    /\ program = "velo"
    /\ \E nullifier_hash \in NullifierHashes, proof \in ZKProofs, recipient \in Recipients :
        VeloStep("withdraw",
                 velo_withdraw(VeloState, nullifier_hash, proof, recipient), TRUE)

VeloWithdrawTest ==
    /\ program = "velo"
    /\ \E nullifier_hash \in NullifierHashes, recipient \in Recipients :
        VeloStep("withdraw_test",
                 velo_withdraw_test(VeloState, nullifier_hash, recipient), TRUE)

VeloRelayerWithdraw ==
    /\ program = "velo"
    /\ \E relayer_state_key \in VeloSigners, relayer \in VeloSigners,
          nullifier_hash \in NullifierHashes, fee \in VeloFees,
          recipient \in Recipients :
        VeloStep("relayer_withdraw",
                 velo_relayer_withdraw_presenting(VeloState, relayer_state_key, relayer,
                                                  nullifier_hash, fee, recipient),
                 TRUE)

VeloRegisterRelayer ==
    /\ program = "velo"
    /\ \E relayer \in {"R"} :
        VeloStep("register_relayer", velo_register_relayer(VeloState, Admin, relayer), FALSE)

VeloWithdrawToStealth ==
    /\ program = "velo"
    /\ \E stealth_hash \in StealthHashes, nullifier_hash \in NullifierHashes :
        VeloStep("withdraw_to_stealth",
                 velo_withdraw_to_stealth(VeloState, stealth_hash, "e1", nullifier_hash),
                 TRUE)

VeloClaimStealth ==
    /\ program = "velo"
    /\ \E stealth_hash \in StealthHashes, recipient \in Recipients :
        VeloStep("claim_stealth", velo_claim_stealth(VeloState, stealth_hash, recipient),
                 FALSE)

VeloInitDecoySystem ==
    /\ program = "velo_decoy"
    /\ \E num_vaults \in NumVaultRequests :
        VeloStep("init_decoy_system",
                 velo_init_decoy_system(VeloState, Admin, num_vaults), FALSE)

VeloShuffle ==
    /\ program = "velo_decoy"
    /\ \E decoy_index \in DecoyIndexes, amount \in ShuffleAmounts, direction \in BOOLEAN :
        VeloStep("shuffle",
                 velo_shuffle(VeloState, slot, decoy_index, amount, direction), FALSE)

VeloDecoyDeposit ==
    /\ program = "velo_decoy"
    /\ \E fake_commitment \in VeloCommitments :
        VeloStep("decoy_deposit", velo_decoy_deposit(VeloState, fake_commitment), FALSE)

VeloDecoyWithdraw ==
    /\ program = "velo_decoy"
    /\ VeloStep("decoy_withdraw", velo_decoy_withdraw(VeloState), FALSE)

\* a plain ledger transfer into a stealth PDA, which no program has to sign
SystemTransfer ==
    /\ program = "velo"
    /\ \E stealth_hash \in StealthHashes, amount \in TopUps :
         /\ lamports[Depositor] >= amount
         /\ lamports[StealthPda(stealth_hash)] \in {0, velo_pool.denomination}
         /\ lamports' = Transfer(lamports, Depositor, StealthPda(stealth_hash), amount)
    /\ last' = [op |-> "system_transfer", result |-> "Ok", gate |-> "none"]
    /\ UNCHANGED <<program, pool, velo_pool, nullifier, relayer_state,
                   stealth_payment, decoy_config, slot, payouts, roots_produced,
                   leaves_inserted, confidential_note>>
    /\ StealthUnchanged /\ PrivateTxUnchanged

\* the ledger height grows
AdvanceSlot ==
    /\ program = "velo_decoy"
    /\ slot < MaxSlot
    /\ slot' = slot + 1
    /\ UNCHANGED <<program, lamports, pool, velo_pool, nullifier, relayer_state,
                   stealth_payment, decoy_config, payouts, roots_produced,
                   leaves_inserted, confidential_note, last>>
    /\ StealthUnchanged /\ PrivateTxUnchanged

VeloNext ==
    \/ VeloInitializePool
    \/ VeloDeposit
    \/ VeloConfidentialDeposit
    \/ VeloWithdraw
    \/ VeloWithdrawTest
    \/ VeloRelayerWithdraw
    \/ VeloRegisterRelayer
    \/ VeloWithdrawToStealth
    \/ VeloClaimStealth
    \/ VeloInitDecoySystem
    \/ VeloShuffle
    \/ VeloDecoyDeposit
    \/ VeloDecoyWithdraw
    \/ SystemTransfer
    \/ AdvanceSlot

(***************************************************************************)
(* velo_stealth                                                            *)
(***************************************************************************)
AnnouncementIds == {"a1", "a2"}
StealthOwners == {"A"}
StealthAmounts == {0, 50}
\* a 64-byte ownership proof: all-zero bytes (0) or not (1)
OwnershipProofs == {0, 1}

NoRegistry ==
    [is_initialized |-> FALSE, authority |-> DefaultPubkey, total_registrations |-> 0,
     total_transactions |-> 0, is_active |-> FALSE]
NoUserStealth ==
    [is_initialized |-> FALSE, owner |-> DefaultPubkey, spend_public_key |-> 0,
     view_public_key |-> 0, total_received |-> 0, is_active |-> FALSE]
NoAnnouncement ==
    [is_initialized |-> FALSE, sender |-> DefaultPubkey, recipient_meta |-> DefaultPubkey,
     stealth_address |-> DefaultPubkey, ephemeral_public_key |-> "", amount |-> 0,
     claimed |-> FALSE]

StealthState ==
    [registry |-> registry, user_stealth |-> user_stealth,
     announcement |-> announcement, lamports |-> lamports]

verify_stealth_ownership(stealth_address, claimer, proof) == proof # 0

stealth_initialize(s, authority) ==
    IF s.registry.is_initialized THEN Err("AccountAlreadyInUse", s)
    ELSE Ok([s EXCEPT !.registry =
                [is_initialized |-> TRUE, authority |-> authority,
                 total_registrations |-> 0, total_transactions |-> 0,
                 is_active |-> TRUE]])

stealth_register_meta_address(s, owner, spend_public_key, view_public_key) ==
    IF ~s.registry.is_initialized THEN Err("AccountNotInitialized", s)
    ELSE IF s.user_stealth[owner].is_initialized THEN Err("AccountAlreadyInUse", s)
    ELSE IF ~s.registry.is_active THEN Err("RegistryInactive", s)
    ELSE Ok([s EXCEPT
               !.user_stealth[owner] =
                   [is_initialized |-> TRUE, owner |-> owner,
                    spend_public_key |-> spend_public_key,
                    view_public_key |-> view_public_key,
                    total_received |-> 0, is_active |-> TRUE],
               !.registry.total_registrations = @ + 1])

\* faulty variant: an announcement account that exists is written again
stealth_announce_payment_overwriting(s, id, sender, recipient_meta, stealth_address, ephemeral_public_key, amount) ==
    IF ~s.registry.is_initialized \/ ~s.user_stealth[recipient_meta].is_initialized
    THEN Err("AccountNotInitialized", s)
    ELSE IF ~s.registry.is_active THEN Err("RegistryInactive", s)
    ELSE LET announced == [s EXCEPT !.announcement[id] =
                             [is_initialized |-> TRUE, sender |-> sender,
                              recipient_meta |-> recipient_meta,
                              stealth_address |-> stealth_address,
                              ephemeral_public_key |-> ephemeral_public_key,
                              amount |-> amount, claimed |-> FALSE]]
         IN  IF s.lamports[sender] < amount THEN Err("InsufficientFunds", announced)
             ELSE Ok([announced EXCEPT
                        !.lamports = Transfer(@, sender, stealth_address, amount),
                        !.user_stealth[recipient_meta].total_received = @ + amount,
                        !.registry.total_transactions = @ + 1])

stealth_announce_payment(s, id, sender, recipient_meta, stealth_address, ephemeral_public_key, amount) ==
    IF ~s.registry.is_initialized \/ ~s.user_stealth[recipient_meta].is_initialized
    THEN Err("AccountNotInitialized", s)
    ELSE IF s.announcement[id].is_initialized THEN Err("AccountAlreadyInUse", s)
    ELSE IF ~s.registry.is_active THEN Err("RegistryInactive", s)
    ELSE LET announced == [s EXCEPT !.announcement[id] =
                             [is_initialized |-> TRUE, sender |-> sender,
                              recipient_meta |-> recipient_meta,
                              stealth_address |-> stealth_address,
                              ephemeral_public_key |-> ephemeral_public_key,
                              amount |-> amount, claimed |-> FALSE]]
         IN  IF s.lamports[sender] < amount THEN Err("InsufficientFunds", announced)
             ELSE Ok([announced EXCEPT
                        !.lamports = Transfer(@, sender, stealth_address, amount),
                        !.user_stealth[recipient_meta].total_received = @ + amount,
                        !.registry.total_transactions = @ + 1])

\* faulty variant: the claimed flag is not looked at
announcement_claimed_never(a) == FALSE

\* announcement.claimed, as read by require!(!announcement.claimed, ..)
announcement_claimed(a) == a.claimed

\* faulty variant: ownership is verified before the claimed flag is looked at
stealth_claim_stealth_funds_proof_first(s, id, claimer, stealth_private_key_proof) ==
    IF ~s.announcement[id].is_initialized THEN Err("AccountNotInitialized", s)
    ELSE IF ~verify_stealth_ownership(s.announcement[id].stealth_address, claimer,
                                      stealth_private_key_proof)
    THEN Err("InvalidOwnershipProof", s)
    ELSE IF s.announcement[id].claimed THEN Err("AlreadyClaimed", s)
    ELSE LET stealth_account == s.announcement[id].stealth_address
             amount == s.lamports[stealth_account]
         IN  Ok([s EXCEPT
                   !.lamports = Transfer(@, stealth_account, claimer, amount),
                   !.announcement[id].claimed = TRUE])

stealth_claim_stealth_funds(s, id, claimer, stealth_private_key_proof) ==
    IF ~s.announcement[id].is_initialized THEN Err("AccountNotInitialized", s)
    ELSE IF announcement_claimed(s.announcement[id]) THEN Err("AlreadyClaimed", s)
    ELSE IF ~verify_stealth_ownership(s.announcement[id].stealth_address, claimer,
                                      stealth_private_key_proof)
    THEN Err("InvalidOwnershipProof", s)
    ELSE LET stealth_account == s.announcement[id].stealth_address
             amount == s.lamports[stealth_account]
         IN  Ok([s EXCEPT
                   !.lamports = Transfer(@, stealth_account, claimer, amount),
                   !.announcement[id].claimed = TRUE])

\* every claim a caller can submit to velo_stealth and to velo
StealthClaimRequests ==
    [id : AnnouncementIds, claimer : Recipients, proof : OwnershipProofs]

StealthClaimOf(s, q) == stealth_claim_stealth_funds(s, q.id, q.claimer, q.proof)

VeloClaimRequests == [stealth_hash : StealthHashes, recipient : Recipients]

VeloClaimOf(s, q) == velo_claim_stealth(s, q.stealth_hash, q.recipient)

StealthStep(op, res) ==
    LET kept == Committed(res, [state |-> StealthState]).state
    IN  /\ registry' = kept.registry
        /\ user_stealth' = kept.user_stealth
        /\ announcement' = kept.announcement
        /\ lamports' = kept.lamports
        /\ last' = [op |-> op, result |-> res.result, gate |-> res.gate]
        /\ UNCHANGED <<program, pool, roots_produced, leaves_inserted>>
        /\ VeloUnchanged /\ PrivateTxUnchanged

StealthInitialize ==
    /\ program = "velo_stealth"
    /\ StealthStep("initialize", stealth_initialize(StealthState, Admin))

StealthRegisterMetaAddress ==
    /\ program = "velo_stealth"
    /\ \E owner \in StealthOwners :
        StealthStep("register_meta_address",
                    stealth_register_meta_address(StealthState, owner, 1, 1))

StealthAnnouncePayment ==
    /\ program = "velo_stealth"
    /\ \E id \in AnnouncementIds, recipient_meta \in StealthOwners,
       amount \in StealthAmounts :
        StealthStep("announce_payment",
                    stealth_announce_payment(StealthState, id, Depositor, recipient_meta,
                                             "stealth_account", "e1", amount))

StealthClaimStealthFunds ==
    /\ program = "velo_stealth"
    /\ \E id \in AnnouncementIds, claimer \in Recipients, proof \in OwnershipProofs :
        StealthStep("claim_stealth_funds",
                    stealth_claim_stealth_funds(StealthState, id, claimer, proof))

StealthNext ==
    \/ StealthInitialize
    \/ StealthRegisterMetaAddress
    \/ StealthAnnouncePayment
    \/ StealthClaimStealthFunds

(***************************************************************************)
(* velo_private_tx (src/programs/velo_private_tx/src/lib.rs)               *)
(***************************************************************************)
PROTOCOL_FEE_BPS == 50

NoProtocol ==
    [is_initialized |-> FALSE, authority |-> DefaultPubkey,
     treasury |-> DefaultPubkey, total_private_transfers |-> 0,
     total_volume |-> 0, fee_bps |-> 0, is_active |-> FALSE]

PrivateTxState ==
    [protocol |-> protocol, nullifier_set |-> nullifier_set, lamports |-> lamports]

\* the input_nullifiers vectors of the transactions: up to two hashes, the
\* same hash twice included
NullifierLists ==
    {<<>>} \cup {<<n>> : n \in NullifierHashes}
           \cup {<<n, m>> : n \in NullifierHashes, m \in NullifierHashes}

TransferProofs ==
    {[proof_data |-> <<>>, merkle_root |-> Commitment1],
     [proof_data |-> <<1>>, merkle_root |-> Zero32],
     [proof_data |-> <<1>>, merkle_root |-> Commitment1]}

\* public_amount: positive = deposit, negative = withdraw
PublicAmounts == {-200, 0, 200}

NewFees == {0, PROTOCOL_FEE_BPS, 1001}

Abs(x) == IF x < 0 THEN -x ELSE x

\* NullifierSet::contains
NullifierSet_contains(set, nullifier_hash) == nullifier_hash \in RangeOf(set.nullifiers)

\* NullifierSet::add
NullifierSet_add(set, nullifier_hash) == [set EXCEPT !.nullifiers = Append(@, nullifier_hash)]

\* for nullifier in &input_nullifiers { nullifier_set.add(*nullifier)?; }
RECURSIVE AddAll(_, _)
AddAll(set, input_nullifiers) ==
    IF input_nullifiers = <<>> THEN set
    ELSE AddAll(NullifierSet_add(set, Head(input_nullifiers)), Tail(input_nullifiers))

verify_transfer_proof(proof, input_nullifiers, output_commitments, public_amount) ==
    IF proof.proof_data = <<>> THEN FALSE
    ELSE proof.merkle_root # Zero32

private_tx_initialize(s, authority, treasury) ==
    IF s.protocol.is_initialized THEN Err("AccountAlreadyInUse", s)
    ELSE Ok([s EXCEPT !.protocol =
                [is_initialized |-> TRUE, authority |-> authority,
                 treasury |-> treasury, total_private_transfers |-> 0,
                 total_volume |-> 0, fee_bps |-> PROTOCOL_FEE_BPS,
                 is_active |-> TRUE]])

private_transfer(s, proof, input_nullifiers, output_commitments, public_amount, user) ==
    IF ~s.protocol.is_initialized THEN Err("AccountNotInitialized", s)
    ELSE IF ~s.protocol.is_active THEN Err("ProtocolInactive", s)
    ELSE IF \E i \in DOMAIN input_nullifiers :
                NullifierSet_contains(s.nullifier_set, input_nullifiers[i])
    THEN Err("NullifierSpent", s)
    ELSE IF ~verify_transfer_proof(proof, input_nullifiers, output_commitments,
                                   public_amount)
    THEN Err("InvalidProof", s)
    ELSE LET spent == AddAll(s.nullifier_set, input_nullifiers)
             amount == Abs(public_amount)
             fee == (amount * s.protocol.fee_bps) \div 10000
             net_amount == amount - fee
             lam1 == IF public_amount > 0
                     THEN Transfer(s.lamports, user, "protocol_vault", amount)
                     ELSE IF public_amount < 0
                     THEN Transfer(s.lamports, "protocol_vault", user, net_amount)
                     ELSE s.lamports
             lam2 == IF public_amount < 0 /\ fee > 0
                     THEN Transfer(lam1, "protocol_vault", "treasury", fee)
                     ELSE lam1
         IN  IF lam2[user] < 0 \/ lam2["protocol_vault"] < 0
             THEN Err("InsufficientFunds", [s EXCEPT !.nullifier_set = spent])
             ELSE Ok([s EXCEPT !.nullifier_set = spent,
                               !.lamports = lam2,
                               !.protocol.total_private_transfers = @ + 1,
                               !.protocol.total_volume = @ + amount])

private_tx_update_fee(s, signer, new_fee_bps) ==
    IF ~s.protocol.is_initialized THEN Err("AccountNotInitialized", s)
    ELSE IF s.protocol.authority # signer THEN Err("ConstraintHasOne", s)
    ELSE IF new_fee_bps > 1000 THEN Err("FeeTooHigh", s)
    ELSE Ok([s EXCEPT !.protocol.fee_bps = new_fee_bps])

PrivateTxStep(op, res) ==
    LET kept == Committed(res, [state |-> PrivateTxState]).state
    IN  /\ protocol' = kept.protocol
        /\ nullifier_set' = kept.nullifier_set
        /\ lamports' = kept.lamports
        /\ last' = [op |-> op, result |-> res.result, gate |-> res.gate]
        /\ UNCHANGED <<program, pool, roots_produced, leaves_inserted>>
        /\ VeloUnchanged /\ StealthUnchanged

PrivateTxInitialize ==
    /\ program = "velo_private_tx"
    /\ \E authority \in {Admin} :
         PrivateTxStep("initialize", private_tx_initialize(PrivateTxState, authority, "treasury"))

PrivateTransfer ==
    /\ program = "velo_private_tx"
    /\ protocol.total_private_transfers < MaxPrivateTransfers
    /\ \E proof \in TransferProofs, input_nullifiers \in NullifierLists,
          public_amount \in PublicAmounts :
         PrivateTxStep("private_transfer",
                       private_transfer(PrivateTxState, proof, input_nullifiers,
                                        <<Commitment1>>, public_amount, Depositor))

PrivateTxUpdateFee ==
    /\ program = "velo_private_tx"
    /\ \E signer \in {Admin, "A"}, new_fee_bps \in NewFees :
         PrivateTxStep("update_fee", private_tx_update_fee(PrivateTxState, signer, new_fee_bps))

PrivateTxNext ==
    \/ PrivateTxInitialize
    \/ PrivateTransfer
    \/ PrivateTxUpdateFee

(***************************************************************************)
(* MerkleTree on its own: insert applied to arbitrary leaves               *)
(***************************************************************************)
Commitment2 == <<2>>
TreeLeaves == {Zero32, Commitment1, Commitment2}

\* insert on the tree of a fresh pool; callers insert only while
\* next_index < 2^MERKLE_TREE_DEPTH
TreeInsert ==
    /\ program = "merkle_tree"
    /\ pool.merkle_tree.next_index < Pow2(MERKLE_TREE_DEPTH)
    /\ \E leaf \in TreeLeaves :
         LET ins == MerkleTree_insert(pool.merkle_tree, leaf)
         IN  /\ pool' = [pool EXCEPT !.merkle_tree = ins.tree]
             /\ roots_produced' = Append(roots_produced, get_current_root(ins.tree))
             /\ leaves_inserted' = Append(leaves_inserted, leaf)
             /\ last' = [op |-> "insert", result |-> "Ok", gate |-> "none"]
    /\ UNCHANGED <<program, lamports>>
    /\ VeloUnchanged /\ StealthUnchanged /\ PrivateTxUnchanged

TreeNext == TreeInsert

(***************************************************************************)
(* Initial state and specifications                                        *)
(***************************************************************************)
InitLamports ==
    [a \in Accounts |->
        IF a = Depositor
        THEN IF program = "velo_mixer"
             THEN (Pow2(MERKLE_TREE_DEPTH) + 1) * POOL_0_1_SOL
             ELSE IF program = "velo_stealth"
             THEN MaxAnnounced * 50
             ELSE IF program = "velo_private_tx"
             THEN 200
             ELSE MaxVeloDeposits * VeloDenomination
        ELSE 0]

Fresh ==
    /\ lamports = InitLamports
    /\ pool = UninitializedPool
    /\ velo_pool = NoVeloPool
    /\ nullifier = {}
    /\ relayer_state = [r \in VeloSigners |-> NoRelayerState]
    /\ stealth_payment = [h \in StealthHashes |-> NoStealthPayment]
    /\ decoy_config = NoDecoyConfig
    /\ slot = 0
    /\ registry = NoRegistry
    /\ user_stealth = [o \in StealthOwners |-> NoUserStealth]
    /\ announcement = [id \in AnnouncementIds |-> NoAnnouncement]
    /\ payouts = 0
    /\ roots_produced = <<>>
    /\ leaves_inserted = <<>>
    /\ protocol = NoProtocol
    /\ nullifier_set = [nullifiers |-> <<>>]
    /\ confidential_note = {}
    /\ last = [op |-> "none", result |-> "Ok", gate |-> "none"]

Init ==
    /\ program \in {"velo_mixer", "velo", "velo_decoy", "velo_stealth", "velo_private_tx"}
    /\ Fresh

MixerInit == Init /\ program = "velo_mixer"

SpecMixer == MixerInit /\ [][MixerNext]_vars

VeloInit == Init /\ program \in {"velo", "velo_decoy"}

SpecVelo == VeloInit /\ [][VeloNext]_vars

StealthInit == Init /\ program = "velo_stealth"

SpecStealth == StealthInit /\ [][StealthNext]_vars

PrivateTxInit == Init /\ program = "velo_private_tx"

SpecPrivateTx == PrivateTxInit /\ [][PrivateTxNext]_vars

\* the tree of a pool as initialize_pool leaves it (MerkleTree::new())
\* the mixer with deposits and boundary-fee withdrawals
SolvencyNext ==
    \/ MixerInitializePool
    \/ MixerDeposit
    \/ MixerWithdrawAtBoundary

SpecSolvency == MixerInit /\ [][SolvencyNext]_vars

TreeInit ==
    /\ program = "merkle_tree"
    /\ lamports = InitLamports
    /\ pool = mixer_initialize_pool(UninitializedPool, Admin, POOL_0_1_SOL).pool
    /\ velo_pool = NoVeloPool
    /\ nullifier = {}
    /\ relayer_state = [r \in VeloSigners |-> NoRelayerState]
    /\ stealth_payment = [h \in StealthHashes |-> NoStealthPayment]
    /\ decoy_config = NoDecoyConfig
    /\ slot = 0
    /\ registry = NoRegistry
    /\ user_stealth = [o \in StealthOwners |-> NoUserStealth]
    /\ announcement = [id \in AnnouncementIds |-> NoAnnouncement]
    /\ payouts = 0
    /\ roots_produced = <<>>
    /\ leaves_inserted = <<>>
    /\ protocol = NoProtocol
    /\ nullifier_set = [nullifiers |-> <<>>]
    /\ confidential_note = {}
    /\ last = [op |-> "none", result |-> "Ok", gate |-> "none"]

SpecTree == TreeInit /\ [][TreeNext]_vars

Next == MixerNext \/ VeloNext \/ StealthNext \/ PrivateTxNext

Spec == Init /\ [][Next]_vars

(***************************************************************************)
(* Properties                                                              *)
(***************************************************************************)
\* the mixer's accounts after the ledger has committed or discarded res
MixerAfter(res) == Committed(res, [pool |-> pool, lamports |-> lamports])

\* velo's accounts after the ledger has committed or discarded res
VeloAfter(res) == Committed(res, [state |-> VeloState]).state

\* how many times nullifier_hash is recorded in the mixer registry
Occurrences(hashes, nullifier_hash) ==
    Cardinality({i \in DOMAIN hashes : hashes[i] = nullifier_hash})

----------------------------------------------------------------------------
\* C1, as stated: once a nullifier hash is recorded by a successful withdraw,
\* every later withdraw or relayer withdraw carrying it fails with
\* NullifierAlreadyUsed.
C1_AsStated ==
    /\ \A q \in WithdrawRequests :
         q.nullifier_hash \in RangeOf(pool.nullifier_hashes) =>
            WithdrawOf(pool, lamports, q).result = "NullifierAlreadyUsed"
    /\ \A q \in VeloWithdrawRequests :
         q.nullifier_hash \in nullifier =>
            VeloWithdrawOf(VeloState, q).result = "NullifierAlreadyUsed"
    /\ \A q \in RelayerWithdrawRequests :
         q.nullifier_hash \in nullifier =>
            RelayerWithdrawOf(VeloState, q).result = "NullifierAlreadyUsed"

\* C1: once a nullifier hash is recorded by a successful withdraw, every later
\* withdraw or relayer withdraw carrying it fails and pays out nothing, whatever
\* its proof, root, recipient or fee.  The mixer reports NullifierAlreadyUsed
\* while the pool is active and PoolInactive while it is paused; velo reports
\* the failed creation of the nullifier account (or, for a relayer that never
\* registered, the missing relayer account).
C1_DoubleSpend ==
    /\ \A q \in WithdrawRequests :
         q.nullifier_hash \in RangeOf(pool.nullifier_hashes) =>
            LET res == WithdrawOf(pool, lamports, q)
            IN  /\ res.result = IF pool.is_active THEN "NullifierAlreadyUsed"
                                ELSE "PoolInactive"
                /\ MixerAfter(res).lamports = lamports
                /\ MixerAfter(res).pool = pool
    /\ \A q \in VeloWithdrawRequests :
         q.nullifier_hash \in nullifier =>
            LET res == VeloWithdrawOf(VeloState, q)
            IN  /\ res.result = "AccountAlreadyInUse"
                /\ VeloAfter(res) = VeloState
    /\ \A q \in RelayerWithdrawRequests :
         q.nullifier_hash \in nullifier =>
            LET res == RelayerWithdrawOf(VeloState, q)
            IN  /\ res.result = IF relayer_state[q.relayer].is_initialized
                                THEN "AccountAlreadyInUse"
                                ELSE "AccountNotInitialized"
                /\ VeloAfter(res) = VeloState

\* a second withdraw with a recorded nullifier hash has just been refused
C1_Witness ==
    /\ program = "velo_mixer"
    /\ last.op = "withdraw" /\ last.result = "NullifierAlreadyUsed"
    /\ pool.total_withdrawals >= 1
    /\ lamports["pool_vault"] >= pool.denomination

----------------------------------------------------------------------------
\* mixer withdraws with a known root, a verifying proof and an unused nullifier
GateReady ==
    {q \in WithdrawRequests :
        /\ q.nullifier_hash \notin RangeOf(pool.nullifier_hashes)
        /\ q.root # Zero32 /\ q.root \in RangeOf(pool.merkle_tree.root_history)
        /\ q.proof.a # 0 /\ q.proof.b # 0 /\ q.proof.c # 0}

\* the results of q1 and then q2, processed one after the other by the mixer
MixerPair(q1, q2) ==
    LET r1 == WithdrawOf(pool, lamports, q1)
        s1 == MixerAfter(r1)
        r2 == WithdrawOf(s1.pool, s1.lamports, q2)
        s2 == Committed(r2, s1)
    IN  [first |-> r1.result, second |-> r2.result,
         alone |-> WithdrawOf(pool, lamports, q2).result, final |-> s2]

\* the results of q1 and then q2, processed one after the other by velo
VeloPair(q1, q2) ==
    LET r1 == VeloWithdrawOf(VeloState, q1)
        s1 == VeloAfter(r1)
        r2 == VeloWithdrawOf(s1, q2)
        s2 == Committed(r2, [state |-> s1]).state
    IN  [first |-> r1.result, second |-> r2.result,
         alone |-> VeloWithdrawOf(VeloState, q2).result, final |-> s2]

\* C2, as stated: of two withdraws with the same unused nullifier hash, both
\* with a known root and a verifying proof, exactly one succeeds whichever is
\* processed first.
C2_AsStated ==
    \A q1 \in GateReady :
        \A q2 \in GateReady :
            q1.nullifier_hash = q2.nullifier_hash =>
                LET pair == MixerPair(q1, q2)
                IN  (pair.first = "Ok") # (pair.second = "Ok")

\* C2: of two withdraws with the same unused nullifier hash, both with a known
\* root and a verifying proof, at most one succeeds whichever is processed
\* first, and exactly one when either would be accepted on its own; then the
\* other is refused (NullifierAlreadyUsed in the mixer when it comes second,
\* AccountAlreadyInUse in velo), the vault is debited for one denomination at
\* most and the nullifier hash is recorded once.
C2_OneWinner ==
    /\ \A q1 \in GateReady :
         \A q2 \in GateReady :
            q1.nullifier_hash = q2.nullifier_hash =>
                LET pair == MixerPair(q1, q2)
                    n == q1.nullifier_hash
                IN  /\ ~(pair.first = "Ok" /\ pair.second = "Ok")
                    /\ (pair.first = "Ok" \/ pair.alone = "Ok") =>
                          /\ (pair.first = "Ok") # (pair.second = "Ok")
                          /\ pair.first = "Ok" => pair.second = "NullifierAlreadyUsed"
                          /\ lamports["pool_vault"] - pair.final.lamports["pool_vault"]
                                \in 0..pool.denomination
                          /\ Occurrences(pair.final.pool.nullifier_hashes, n) = 1
                          /\ pair.final.pool.total_withdrawals
                                = pool.total_withdrawals + 1
                    /\ (pair.first # "Ok" /\ pair.alone # "Ok") =>
                          /\ pair.second # "Ok"
                          /\ pair.final = [pool |-> pool, lamports |-> lamports]
    /\ \A q1 \in VeloWithdrawRequests :
         \A q2 \in VeloWithdrawRequests :
            (q1.nullifier_hash = q2.nullifier_hash
             /\ q1.nullifier_hash \notin nullifier) =>
                LET pair == VeloPair(q1, q2)
                IN  /\ ~(pair.first = "Ok" /\ pair.second = "Ok")
                    /\ (pair.first = "Ok" \/ pair.alone = "Ok") =>
                          /\ pair.first = "Ok" /\ pair.second = "AccountAlreadyInUse"
                          /\ lamports["velo_vault"] - pair.final.lamports["velo_vault"]
                                = velo_pool.denomination
                          /\ pair.final.nullifier = nullifier \cup {q1.nullifier_hash}

\* two deposits are in the vault, one withdraw has succeeded and a second one
\* with the same nullifier hash has just been refused
C2_Witness ==
    /\ program = "velo_mixer"
    /\ last.op = "withdraw" /\ last.result = "NullifierAlreadyUsed"
    /\ pool.total_deposits = 2 /\ pool.total_withdrawals = 1
    /\ Len(pool.nullifier_hashes) = 1

----------------------------------------------------------------------------
\* C3, as stated: every payout from the velo vault records a nullifier hash
\* that was unused, so the payouts made equal the nullifier hashes recorded.
C3_PayoutsMatchNullifiers ==
    payouts = Cardinality(nullifier)

----------------------------------------------------------------------------
\* the roots of the last k deposits
LastRoots(k) ==
    LET n == Len(roots_produced)
    IN  {roots_produced[i] : i \in (n - Min(n, k) + 1)..n}

\* the roots produced so far are pairwise distinct and non-zero
RootsDistinct ==
    /\ Cardinality(RangeOf(roots_produced)) = Len(roots_produced)
    /\ Zero32 \notin RangeOf(roots_produced)

\* C4: after N deposits into a fresh pool whose roots are pairwise distinct and
\* non-zero, is_known_root is true of exactly the last min(N, K) roots produced
\* by insert: false of older roots, of the all-zero root (also while unfilled
\* history slots hold zeros) and of any other value.
C4_RootWindow ==
    (pool.is_initialized /\ RootsDistinct) =>
        /\ pool.merkle_tree.next_index = Len(roots_produced)
        /\ \A v \in RootCandidates \cup Commitments \cup RangeOf(pool.merkle_tree.zeros) :
             is_known_root(pool.merkle_tree, v) <=> v \in LastRoots(ROOT_HISTORY_SIZE)

\* more deposits than history slots: the first root has left the window
C4_Witness ==
    /\ last.op = "deposit" /\ last.result = "Ok"
    /\ Len(roots_produced) > ROOT_HISTORY_SIZE
    /\ ~is_known_root(pool.merkle_tree, roots_produced[1])
    /\ is_known_root(pool.merkle_tree, roots_produced[Len(roots_produced)])

----------------------------------------------------------------------------
\* mixer withdraws with a root no deposit produced, a verifying proof and an
\* unused nullifier
NeverProducedRoot ==
    {q \in WithdrawRequests :
        /\ q.root \notin RangeOf(roots_produced)
        /\ q.nullifier_hash \notin RangeOf(pool.nullifier_hashes)
        /\ q.proof.a # 0 /\ q.proof.b # 0 /\ q.proof.c # 0}

\* C5, as stated: on a pool that exists, a withdraw with a never-produced root
\* fails with InvalidMerkleRoot even with a verifying proof and an unused
\* nullifier.
C5_AsStated ==
    pool.is_initialized =>
        \A q \in NeverProducedRoot :
            WithdrawOf(pool, lamports, q).result = "InvalidMerkleRoot"

\* C5: on a pool that exists, a withdraw with a never-produced root fails even
\* with a verifying proof and an unused nullifier, with InvalidMerkleRoot while
\* the pool is active and PoolInactive while it is paused; no nullifier is
\* recorded and nothing leaves the vault.
C5_UnknownRoot ==
    pool.is_initialized =>
        \A q \in NeverProducedRoot :
            LET res == WithdrawOf(pool, lamports, q)
            IN  /\ res.result = IF pool.is_active THEN "InvalidMerkleRoot"
                                ELSE "PoolInactive"
                /\ MixerAfter(res) = [pool |-> pool, lamports |-> lamports]
                /\ res.pool.nullifier_hashes = pool.nullifier_hashes
                /\ res.lamports = lamports

\* a withdraw naming a never-produced root has just been refused although the
\* vault is funded and its root history is non-empty
C5_Witness ==
    /\ last.op = "withdraw" /\ last.result = "InvalidMerkleRoot"
    /\ pool.is_active
    /\ lamports["pool_vault"] >= pool.denomination
    /\ Len(roots_produced) >= 1

----------------------------------------------------------------------------
\* C6, as stated: a proof is bound to its public inputs, so once a withdraw has
\* been accepted, the same proof and root offered with another unused
\* nullifier hash and a different recipient or a different fee is rejected.
C6_ProofBinding ==
    \A q1 \in WithdrawRequests :
        LET r1 == WithdrawOf(pool, lamports, q1)
            s1 == MixerAfter(r1)
        IN  r1.result = "Ok" =>
              \A q2 \in WithdrawRequests :
                 (/\ q2.proof = q1.proof /\ q2.root = q1.root
                  /\ q2.nullifier_hash \notin RangeOf(s1.pool.nullifier_hashes)
                  /\ (q2.recipient # q1.recipient \/ q2.fee # q1.fee)
                  /\ q2.fee <= pool.denomination
                  /\ s1.lamports["pool_vault"] >= pool.denomination) =>
                     WithdrawOf(s1.pool, s1.lamports, q2).result = "InvalidProof"

----------------------------------------------------------------------------
\* the accounts the programs own or pay: everything but the ledger's slot
ProgramState ==
    <<lamports, pool, velo_pool, nullifier, relayer_state, stealth_payment,
      decoy_config, registry, user_stealth, announcement>>

\* C7: an instruction that returns an error leaves every account as it was:
\* counters, accumulator, nullifier registry, announcements, decoy
\* configuration and all balances; a withdraw refused with
\* FeeExceedsDenomination leaves its nullifier hash unrecorded.
C7_AllOrNothing ==
    [][(last'.result # "Ok" /\ last'.op # "none") => ProgramState' = ProgramState]_vars

\* a withdraw has just failed on its fee, after its nullifier hash was pushed,
\* and the registry is still empty
C7_Witness ==
    /\ last.op = "withdraw" /\ last.result = "FeeExceedsDenomination"
    /\ pool.nullifier_hashes = <<>>
    /\ lamports["pool_vault"] >= pool.denomination

----------------------------------------------------------------------------
\* C8, as stated: an accepted withdraw with fee f adds denomination - f to the
\* recipient and f to the relayer and takes the denomination from the vault,
\* for every relayer, the default one with f > 0 included.
C8_AsStated ==
    \A q \in WithdrawRequests :
        LET res == WithdrawOf(pool, lamports, q)
        IN  res.result = "Ok" =>
              /\ res.lamports[q.recipient] = lamports[q.recipient]
                                                + pool.denomination - q.fee
              /\ res.lamports[q.relayer] = lamports[q.relayer] + q.fee
              /\ res.lamports["pool_vault"] = lamports["pool_vault"]
                                                 - pool.denomination

\* what a payout of amount to recipient and of fee to relayer adds to account a
Credit(a, recipient, amount, relayer, fee) ==
    (IF a = recipient THEN amount ELSE 0) + (IF a = relayer THEN fee ELSE 0)

\* C8: an accepted withdraw with fee f <= denomination adds denomination - f to
\* the recipient; when the relayer is not the default key it adds f to the
\* relayer and takes the denomination from the vault; when the relayer is the
\* default key and f > 0 nobody is paid the fee, which stays in the vault, so
\* the vault pays denomination - f only.  A recipient that is also the relayer
\* receives both sums.  A relayed velo withdraw adds denomination - f to the
\* recipient, f to the relayer and takes the denomination from the vault.
C8_Payout ==
    /\ \A q \in WithdrawRequests :
         LET res == WithdrawOf(pool, lamports, q)
             paid_fee == IF q.relayer # DefaultPubkey THEN q.fee ELSE 0
         IN  res.result = "Ok" =>
               /\ q.fee <= pool.denomination
               /\ res.lamports["pool_vault"] = lamports["pool_vault"]
                     - (pool.denomination - q.fee) - paid_fee
               /\ \A a \in Accounts \ {"pool_vault"} :
                     res.lamports[a] = lamports[a]
                        + Credit(a, q.recipient, pool.denomination - q.fee,
                                 q.relayer, paid_fee)
    /\ \A q \in RelayerWithdrawRequests :
         LET res == RelayerWithdrawOf(VeloState, q)
         IN  res.result = "Ok" =>
               /\ res.state.lamports["velo_vault"] = lamports["velo_vault"]
                     - velo_pool.denomination
               /\ \A a \in Accounts \ {"velo_vault"} :
                     res.state.lamports[a] = lamports[a]
                        + Credit(a, q.recipient, velo_pool.denomination - q.fee,
                                 q.relayer, q.fee)

\* every deposit has been withdrawn, the last one with a fee and the default
\* relayer: the fee is still in the vault
C8_Witness ==
    /\ last.op = "withdraw" /\ last.result = "Ok"
    /\ pool.total_withdrawals = pool.total_deposits
    /\ lamports["pool_vault"] > 0
    /\ lamports[DefaultPubkey] = 0

----------------------------------------------------------------------------
\* C9, as stated: a relayed withdraw goes through the withdrawal gate, so it
\* succeeds only after the root and the proof have been verified.
C9_RelayedPassesGate ==
    (last.op = "relayer_withdraw" /\ last.result = "Ok") => last.gate = "passed"

----------------------------------------------------------------------------
\* C10, as stated: on a pool that exists, a relayed withdraw fails with
\* FeeTooHigh whenever fee > denomination / 100 and is not refused for its fee
\* otherwise; an accepted one leaves the recipient at least 99% of the
\* denomination.
C10_AsStated ==
    velo_pool.is_initialized =>
        \A q \in RelayerWithdrawRequests :
            LET res == RelayerWithdrawOf(VeloState, q)
            IN  /\ q.fee > velo_pool.denomination \div 100 => res.result = "FeeTooHigh"
                /\ q.fee <= velo_pool.denomination \div 100 => res.result # "FeeTooHigh"
                /\ res.result = "Ok" =>
                      100 * (velo_pool.denomination - q.fee) >= 99 * velo_pool.denomination

\* C10: on a pool that exists, a relayed withdraw with fee > denomination / 100
\* always fails, with FeeTooHigh when the relayer is registered and the
\* nullifier hash is unused (the missing relayer account and the nullifier
\* account in use are reported first); with fee <= denomination / 100 it is
\* never refused with FeeTooHigh; an accepted one never underflows
\* denomination - fee and leaves the recipient at least 99% of the denomination.
C10_FeeCap ==
    velo_pool.is_initialized =>
        \A q \in RelayerWithdrawRequests :
            LET res == RelayerWithdrawOf(VeloState, q)
                denomination == velo_pool.denomination
            IN  /\ q.fee > denomination \div 100 =>
                      /\ res.result # "Ok"
                      /\ (relayer_state[q.relayer].is_initialized
                          /\ q.nullifier_hash \notin nullifier) =>
                             res.result = "FeeTooHigh"
                /\ q.fee <= denomination \div 100 => res.result # "FeeTooHigh"
                /\ res.result = "Ok" =>
                      /\ denomination - q.fee >= 0
                      /\ 100 * (denomination - q.fee) >= 99 * denomination
                      /\ res.state.lamports[q.recipient] - lamports[q.recipient]
                            >= denomination - q.fee

\* a relayed withdraw from a funded vault has just been refused for its fee
C10_Witness ==
    /\ last.op = "relayer_withdraw" /\ last.result = "FeeTooHigh"
    /\ lamports["velo_vault"] >= velo_pool.denomination

----------------------------------------------------------------------------
\* C11, as stated: on a pool that exists, a relayed withdraw by a relayer that
\* never registered fails with RelayerNotActive.
C11_AsStated ==
    velo_pool.is_initialized =>
        \A q \in RelayerWithdrawRequests :
            ~relayer_state[q.relayer].is_initialized =>
                RelayerWithdrawOf(VeloState, q).result = "RelayerNotActive"

\* velo's accounts with the record of relayer switched to inactive
Deactivated(relayer) ==
    [VeloState EXCEPT !.relayer_state[relayer].is_active = FALSE]

\* C11: on a pool that exists, a relayed withdraw by a relayer that never
\* registered fails in account validation (the relayer record is missing) and
\* changes nothing; a relayed withdraw with an unused nullifier hash whose
\* record is not active fails with RelayerNotActive, but no instruction
\* deactivates a record, so every record that exists is active; a relayed
\* withdraw succeeds only if a record for the submitter exists with
\* is_active = true.
C11_RelayerRegistered ==
    /\ \A r \in VeloSigners :
         relayer_state[r].is_initialized => relayer_state[r].is_active
    /\ velo_pool.is_initialized =>
         \A q \in RelayerWithdrawRequests :
            LET res == RelayerWithdrawOf(VeloState, q)
            IN  /\ ~relayer_state[q.relayer].is_initialized =>
                      /\ res.result = "AccountNotInitialized"
                      /\ VeloAfter(res) = VeloState
                /\ res.result = "Ok" =>
                      /\ relayer_state[q.relayer].is_initialized
                      /\ relayer_state[q.relayer].is_active
                /\ (relayer_state[q.relayer].is_initialized
                    /\ q.nullifier_hash \notin nullifier) =>
                      RelayerWithdrawOf(Deactivated(q.relayer), q).result
                         = "RelayerNotActive"

\* an unregistered relayer has just been turned away from a funded vault while
\* another relayer is registered
C11_Witness ==
    /\ last.op = "relayer_withdraw" /\ last.result = "AccountNotInitialized"
    /\ velo_pool.is_initialized
    /\ lamports["velo_vault"] >= velo_pool.denomination
    /\ \E r \in VeloSigners : ~relayer_state[r].is_initialized
    /\ \E r \in VeloSigners : relayer_state[r].is_initialized

----------------------------------------------------------------------------
\* relayed withdraws signed by one identity and presenting the existing record
\* of another, with an unused nullifier hash, on a pool that exists
ForeignRecordRequests ==
    {q \in [relayer_state_key : VeloSigners, relayer : VeloSigners,
            nullifier_hash : NullifierHashes, fee : VeloFees,
            recipient : Recipients] :
        /\ velo_pool.is_initialized
        /\ q.relayer_state_key # q.relayer
        /\ relayer_state[q.relayer_state_key].is_initialized
        /\ q.nullifier_hash \notin nullifier}

PresentingOf(s, q) ==
    velo_relayer_withdraw_presenting(s, q.relayer_state_key, q.relayer,
                                     q.nullifier_hash, q.fee, q.recipient)

\* C12, as stated: a relayed withdraw signed by an identity other than the one
\* stored in the record it presents fails with UnauthorizedRelayer.
C12_AsStated ==
    \A q \in ForeignRecordRequests :
        PresentingOf(VeloState, q).result = "UnauthorizedRelayer"

\* C12: a relayed withdraw signed by an identity other than the one stored in
\* the record it presents fails and changes nothing: the record's address is
\* derived from the signer, so the foreign record is refused by the seeds
\* constraint and UnauthorizedRelayer is never returned; every record stores
\* the identity its address is derived from; in every successful relayed
\* withdraw the signer equals relayer_state.relayer and is paid the fee.
C12_SignerOwnsRecord ==
    /\ \A r \in VeloSigners :
         relayer_state[r].is_initialized => relayer_state[r].relayer = r
    /\ \A q \in ForeignRecordRequests :
         LET res == PresentingOf(VeloState, q)
         IN  /\ res.result = "ConstraintSeeds"
             /\ VeloAfter(res) = VeloState
    /\ \A q \in [relayer_state_key : VeloSigners, relayer : VeloSigners,
                 nullifier_hash : NullifierHashes, fee : VeloFees,
                 recipient : Recipients] :
         LET res == PresentingOf(VeloState, q)
         IN  /\ res.result # "UnauthorizedRelayer"
             /\ res.result = "Ok" =>
                   /\ q.relayer_state_key = q.relayer
                   /\ relayer_state[q.relayer_state_key].relayer = q.relayer
                   /\ res.state.lamports[q.relayer] = lamports[q.relayer]
                         + Credit(q.relayer, q.recipient,
                                  velo_pool.denomination - q.fee, q.relayer, q.fee)

\* a signer presenting another relayer's record has just been refused although
\* the vault is funded
C12_Witness ==
    /\ last.op = "relayer_withdraw" /\ last.result = "ConstraintSeeds"
    /\ lamports["velo_vault"] >= velo_pool.denomination

----------------------------------------------------------------------------
\* C13, as stated: in every successful relayed withdraw the signer is not the
\* recipient.
C13_SignerIsNotRecipient ==
    \A q \in RelayerWithdrawRequests :
        RelayerWithdrawOf(VeloState, q).result = "Ok" => q.relayer # q.recipient

----------------------------------------------------------------------------
\* velo_stealth's accounts after the ledger has committed or discarded res
StealthAfter(res) == Committed(res, [state |-> StealthState]).state

\* the announcements and payment records whose claimed flag is set
ClaimedAnnouncements == {id \in AnnouncementIds : announcement[id].claimed}
ClaimedPayments == {h \in StealthHashes : stealth_payment[h].claimed}

\* C14: for every stealth announcement and stealth payment record, over any
\* sequence of claim attempts at most one succeeds: a successful claim flips
\* the claimed flag of exactly one unclaimed record, a set flag is never
\* cleared, funds leave a stealth vault only in a successful claim, and every
\* attempt on a claimed record fails with AlreadyClaimed and moves nothing.
C14_ClaimOnce ==
    [][/\ \A id \in ClaimedAnnouncements : announcement'[id].claimed
       /\ \A h \in ClaimedPayments : stealth_payment'[h].claimed
       /\ \A q \in StealthClaimRequests :
            q.id \in ClaimedAnnouncements =>
               /\ StealthClaimOf(StealthState, q).result = "AlreadyClaimed"
               /\ StealthAfter(StealthClaimOf(StealthState, q)) = StealthState
       /\ \A q \in VeloClaimRequests :
            q.stealth_hash \in ClaimedPayments =>
               /\ VeloClaimOf(VeloState, q).result = "AlreadyClaimed"
               /\ VeloAfter(VeloClaimOf(VeloState, q)) = VeloState
       /\ (last'.op = "claim_stealth_funds" /\ last'.result = "Ok") =>
             \E id \in AnnouncementIds \ ClaimedAnnouncements :
                /\ announcement'[id].claimed
                /\ \A other \in AnnouncementIds \ {id} :
                      announcement'[other] = announcement[other]
       /\ (last'.op = "claim_stealth" /\ last'.result = "Ok") =>
             \E h \in StealthHashes \ ClaimedPayments :
                /\ stealth_payment'[h].claimed
                /\ \A other \in StealthHashes \ {h} :
                      stealth_payment'[other] = stealth_payment[other]
       /\ lamports'["stealth_account"] < lamports["stealth_account"] =>
             (last'.op = "claim_stealth_funds" /\ last'.result = "Ok")
       /\ \A h \in StealthHashes :
             lamports'[StealthPda(h)] < lamports[StealthPda(h)] =>
                (last'.op = "claim_stealth" /\ last'.result = "Ok")
      ]_vars

\* one announcement is claimed, the other is not, and a further claim has just
\* been refused
C14_Witness ==
    /\ last.op = "claim_stealth_funds" /\ last.result = "AlreadyClaimed"
    /\ \E id \in AnnouncementIds : announcement[id].claimed
    /\ \E id \in AnnouncementIds :
          announcement[id].is_initialized /\ ~announcement[id].claimed

----------------------------------------------------------------------------
\* C15: a claim on an announcement whose claimed flag is set fails with
\* AlreadyClaimed whether the ownership proof is valid or all-zero: the flag is
\* looked at before ownership is verified, so the error is never
\* InvalidOwnershipProof.
C15_ClaimedBeforeProof ==
    \A id \in ClaimedAnnouncements :
        \A claimer \in Recipients :
            /\ \E proof \in OwnershipProofs :
                  verify_stealth_ownership(announcement[id].stealth_address,
                                           claimer, proof)
            /\ \E proof \in OwnershipProofs :
                  ~verify_stealth_ownership(announcement[id].stealth_address,
                                            claimer, proof)
            /\ \A proof \in OwnershipProofs :
                  stealth_claim_stealth_funds(StealthState, id, claimer, proof).result
                     = "AlreadyClaimed"

\* a claim on a claimed announcement has just been refused while the stealth
\* vault holds the funds of a later announcement
C15_Witness ==
    /\ last.op = "claim_stealth_funds" /\ last.result = "AlreadyClaimed"
    /\ lamports["stealth_account"] > 0

----------------------------------------------------------------------------
\* C16, as stated: a successful stealth claim sets claimed and releases the
\* full balance of the stealth vault: afterwards the vault holds 0 and the
\* claimer has grown by the vault's balance before the claim.
C16_AsStated ==
    /\ \A q \in StealthClaimRequests :
         LET res == StealthClaimOf(StealthState, q)
             vault == announcement[q.id].stealth_address
         IN  res.result = "Ok" =>
               /\ res.state.announcement[q.id].claimed
               /\ res.state.lamports[vault] = 0
               /\ res.state.lamports[q.claimer] = lamports[q.claimer] + lamports[vault]
    /\ \A q \in VeloClaimRequests :
         LET res == VeloClaimOf(VeloState, q)
             vault == StealthPda(q.stealth_hash)
         IN  res.result = "Ok" =>
               /\ res.state.stealth_payment[q.stealth_hash].claimed
               /\ res.state.lamports[vault] = 0
               /\ res.state.lamports[q.recipient] = lamports[q.recipient] + lamports[vault]

\* C16: a successful stealth claim sets claimed.  In velo_stealth it releases
\* the full balance of the stealth vault: afterwards the vault holds 0 and the
\* claimer has grown by the vault's balance before the claim, which may differ
\* from the announced amount.  In velo it releases the recorded amount, not
\* the balance: the claimer grows by stealth_payment.amount and whatever else
\* the stealth PDA held stays there.
C16_ClaimReleases ==
    /\ \A q \in StealthClaimRequests :
         LET res == StealthClaimOf(StealthState, q)
             vault == announcement[q.id].stealth_address
         IN  res.result = "Ok" =>
               /\ res.state.announcement[q.id].claimed
               /\ res.state.lamports[vault] = 0
               /\ res.state.lamports[q.claimer] = lamports[q.claimer] + lamports[vault]
               /\ \A a \in Accounts \ {vault, q.claimer} :
                     res.state.lamports[a] = lamports[a]
    /\ \A q \in VeloClaimRequests :
         LET res == VeloClaimOf(VeloState, q)
             vault == StealthPda(q.stealth_hash)
             amount == stealth_payment[q.stealth_hash].amount
         IN  res.result = "Ok" =>
               /\ res.state.stealth_payment[q.stealth_hash].claimed
               /\ res.state.lamports[vault] = lamports[vault] - amount
               /\ res.state.lamports[vault] >= 0
               /\ res.state.lamports[q.recipient] = lamports[q.recipient] + amount
               /\ \A a \in Accounts \ {vault, q.recipient} :
                     res.state.lamports[a] = lamports[a]

\* a velo claim has just succeeded and the stealth PDA still holds lamports
C16_Witness ==
    /\ last.op = "claim_stealth" /\ last.result = "Ok"
    /\ \E h \in StealthHashes :
          stealth_payment[h].claimed /\ lamports[StealthPda(h)] > 0

----------------------------------------------------------------------------
\* every shuffle a caller can submit whose other preconditions are met: the
\* decoy system exists and is enabled, the index is in range and the paying
\* vault holds the amount
ShuffleRequests ==
    {q \in [decoy_index : DecoyIndexes, amount : ShuffleAmounts, direction : BOOLEAN] :
        /\ velo_pool.is_initialized /\ decoy_config.is_initialized
        /\ decoy_config.enabled
        /\ q.decoy_index < decoy_config.num_decoy_vaults
        /\ lamports[IF q.direction THEN "velo_vault" ELSE DecoyVault(q.decoy_index)]
              >= q.amount}

ShuffleOf(s, q) == velo_shuffle(s, slot, q.decoy_index, q.amount, q.direction)

\* C17, as stated: a shuffle at height h is refused with ShuffleRateLimited if
\* h - lastShuffleHeight < 2 and is not rate-limited if
\* h - lastShuffleHeight >= 2.
C17_AsStated ==
    \A q \in ShuffleRequests :
        LET res == ShuffleOf(VeloState, q)
        IN  IF slot - decoy_config.last_shuffle_slot < 2
            THEN res.result = "ShuffleRateLimited"
            ELSE res.result # "ShuffleRateLimited"

\* C17: a shuffle at height h is refused with ShuffleRateLimited if
\* h - lastShuffleHeight <= 2 and is not rate-limited if
\* h - lastShuffleHeight >= 3; lastShuffleHeight is 0 when the decoy system is
\* created and the height of the shuffle after each successful one, so no two
\* successful shuffles of a pool are less than 3 heights apart and none
\* succeeds before height 3.
C17_RateLimit ==
    /\ decoy_config.is_initialized =>
         /\ decoy_config.last_shuffle_slot <= slot
         /\ decoy_config.total_shuffles = 0 => decoy_config.last_shuffle_slot = 0
         /\ decoy_config.total_shuffles > 0 =>
               decoy_config.last_shuffle_slot >= 3 * decoy_config.total_shuffles
    /\ \A q \in ShuffleRequests :
         LET res == ShuffleOf(VeloState, q)
         IN  IF slot - decoy_config.last_shuffle_slot <= 2
             THEN /\ res.result = "ShuffleRateLimited"
                  /\ VeloAfter(res) = VeloState
             ELSE /\ res.result = "Ok"
                  /\ res.state.decoy_config.last_shuffle_slot = slot
                  /\ res.state.decoy_config.total_shuffles
                        = decoy_config.total_shuffles + 1

\* a shuffle exactly two heights after a successful one has just been refused
C17_Witness ==
    /\ last.op = "shuffle" /\ last.result = "ShuffleRateLimited"
    /\ decoy_config.total_shuffles >= 1
    /\ slot - decoy_config.last_shuffle_slot = 2
    /\ ShuffleRequests # {}

----------------------------------------------------------------------------
\* the main vault and the decoy vaults
Vaults == {"velo_vault"} \cup {DecoyVault(i) : i \in DecoyIndexes}

RECURSIVE SumOver(_, _)
\* the lamports held by the accounts in names
SumOver(lam, names) ==
    IF names = {} THEN 0
    ELSE LET a == CHOOSE x \in names : TRUE
         IN  lam[a] + SumOver(lam, names \ {a})

\* the instructions that move lamports between the vaults
DecoyOps == {"shuffle", "decoy_deposit", "decoy_withdraw"}

\* C18: every successful shuffle(decoyIndex, amount, direction) debits one of
\* the main vault and decoy vault decoyIndex by amount and credits the other by
\* amount; decoy_deposit and decoy_withdraw do so with decoy vault 0 and the
\* denomination; so the sum over the main vault and all decoy vaults is
\* unchanged by every shuffle, decoy deposit and decoy withdrawal, and no
\* balance becomes negative.
C18_Conservation ==
    [][/\ \A a \in Accounts : lamports[a] >= 0 /\ lamports'[a] >= 0
       /\ last'.op \in DecoyOps =>
             /\ SumOver(lamports', Vaults) = SumOver(lamports, Vaults)
             /\ \A a \in Accounts \ Vaults : lamports'[a] = lamports[a]
       /\ \A i \in DecoyIndexes, amount \in ShuffleAmounts, direction \in BOOLEAN :
             LET res == velo_shuffle(VeloState, slot, i, amount, direction)
                 from == IF direction THEN "velo_vault" ELSE DecoyVault(i)
                 to == IF direction THEN DecoyVault(i) ELSE "velo_vault"
             IN  res.result = "Ok" =>
                    /\ res.state.lamports[from] = lamports[from] - amount
                    /\ res.state.lamports[to] = lamports[to] + amount
                    /\ \A a \in Accounts \ {from, to} :
                          res.state.lamports[a] = lamports[a]
       /\ \A fake_commitment \in VeloCommitments :
             LET res == velo_decoy_deposit(VeloState, fake_commitment)
             IN  res.result = "Ok" =>
                    SumOver(res.state.lamports, Vaults) = SumOver(lamports, Vaults)
       /\ LET res == velo_decoy_withdraw(VeloState)
          IN  res.result = "Ok" =>
                 SumOver(res.state.lamports, Vaults) = SumOver(lamports, Vaults)
      ]_vars

\* a decoy vault holds lamports after a shuffle and decoy traffic has moved a
\* denomination
C18_Witness ==
    /\ last.op \in {"decoy_deposit", "decoy_withdraw"} /\ last.result = "Ok"
    /\ decoy_config.total_shuffles >= 1
    /\ \E i \in DecoyIndexes : lamports[DecoyVault(i)] > 0

----------------------------------------------------------------------------
\* C19: decoy_deposit and decoy_withdraw leave the pool's real state as it was:
\* total_deposits, next_index and merkle_root (and the nullifier accounts) are
\* the same after the call as before, while a denomination has moved between
\* decoy vault 0 and the main vault.
C19_DecoyFrame ==
    /\ \A fake_commitment \in VeloCommitments :
         LET res == velo_decoy_deposit(VeloState, fake_commitment)
         IN  res.result = "Ok" =>
               /\ res.state.velo_pool = velo_pool
               /\ res.state.nullifier = nullifier
               /\ res.state.decoy_config = decoy_config
               /\ res.state.lamports["velo_vault"]
                     = lamports["velo_vault"] + velo_pool.denomination
               /\ res.state.lamports[DecoyVault(0)]
                     = lamports[DecoyVault(0)] - velo_pool.denomination
    /\ LET res == velo_decoy_withdraw(VeloState)
       IN  res.result = "Ok" =>
             /\ res.state.velo_pool = velo_pool
             /\ res.state.nullifier = nullifier
             /\ res.state.decoy_config = decoy_config
             /\ res.state.lamports["velo_vault"]
                   = lamports["velo_vault"] - velo_pool.denomination
             /\ res.state.lamports[DecoyVault(0)]
                   = lamports[DecoyVault(0)] + velo_pool.denomination

\* a decoy deposit has just paid a denomination into the main vault of a pool
\* that has real deposits
C19_Witness ==
    /\ last.op = "decoy_deposit" /\ last.result = "Ok"
    /\ velo_pool.total_deposits >= 1
    /\ lamports["velo_vault"] >= velo_pool.denomination

----------------------------------------------------------------------------
\* the tree of the mixer pool holds 2^D leaves
TreeIsFull == pool.merkle_tree.next_index = Pow2(MERKLE_TREE_DEPTH)

\* C20, as stated: on a pool that exists, a deposit made when next_index = 2^D
\* fails with MerkleTreeFull.
C20_AsStated ==
    (pool.is_initialized /\ TreeIsFull) =>
        \A depositor \in {Depositor, Admin}, commitment \in Commitments :
            mixer_deposit(pool, lamports, depositor, commitment).result
               = "MerkleTreeFull"

\* C20: a deposit made when next_index = 2^D fails, with MerkleTreeFull while
\* the pool is active and PoolInactive while it is paused, transfers nothing
\* and changes no state; in every reachable state next_index <= 2^D, and a
\* full pool stays full.
C20_Capacity ==
    [][/\ pool.merkle_tree.next_index <= Pow2(MERKLE_TREE_DEPTH)
       /\ (pool.is_initialized /\ TreeIsFull) =>
             /\ pool'.merkle_tree = pool.merkle_tree
             /\ \A depositor \in {Depositor, Admin}, commitment \in Commitments :
                   LET res == mixer_deposit(pool, lamports, depositor, commitment)
                   IN  /\ res.result = IF pool.is_active THEN "MerkleTreeFull"
                                       ELSE "PoolInactive"
                       /\ MixerAfter(res) = [pool |-> pool, lamports |-> lamports]
                       /\ res.lamports = lamports
      ]_vars

\* a deposit into a full, active pool has just been refused although the
\* depositor could pay
C20_Witness ==
    /\ last.op = "deposit" /\ last.result = "MerkleTreeFull"
    /\ TreeIsFull /\ pool.is_active
    /\ lamports[Depositor] >= pool.denomination

(***************************************************************************)
(* C21: the example scenario                                               *)
(***************************************************************************)
\* the example's transactions on a fresh ledger, one after the other:
\* initialize_pool, deposit c1, deposit c2, withdraw (root r1, nullifier n1,
\* fee 0, no relayer), and the same withdraw again
Scenario(denomination, c1, c2, n1, recipient) ==
    LET proof == [a |-> 1, b |-> 1, c |-> 1]
        created == mixer_initialize_pool(UninitializedPool, Admin, denomination)
        s0 == [pool |-> Committed(created, [pool |-> UninitializedPool]).pool,
               lamports |-> InitLamports]
        dep1 == mixer_deposit(s0.pool, s0.lamports, Depositor, c1)
        s1 == Committed(dep1, s0)
        r1 == get_current_root(s1.pool.merkle_tree)
        dep2 == mixer_deposit(s1.pool, s1.lamports, Depositor, c2)
        s2 == Committed(dep2, s1)
        r2 == get_current_root(s2.pool.merkle_tree)
        wd1 == mixer_withdraw(s2.pool, s2.lamports, proof, r1, n1, recipient,
                              DefaultPubkey, 0)
        s3 == Committed(wd1, s2)
        wd2 == mixer_withdraw(s3.pool, s3.lamports, proof, r1, n1, recipient,
                              DefaultPubkey, 0)
        s4 == Committed(wd2, s3)
    IN  [created |-> created.result, dep1 |-> dep1.result, dep2 |-> dep2.result,
         wd1 |-> wd1.result, wd2 |-> wd2.result, r1 |-> r1, r2 |-> r2,
         s1 |-> s1, s2 |-> s2, s3 |-> s3, s4 |-> s4]

ScenarioHolds(denomination) ==
    \A c1 \in {Commitment1, Commitment2}, c2 \in {Commitment1, Commitment2},
       n1 \in NullifierHashes, recipient \in Recipients :
        LET x == Scenario(denomination, c1, c2, n1, recipient)
        IN  /\ x.created = "Ok"
            /\ x.dep1 = "Ok"
            /\ x.s1.pool.merkle_tree.next_index = 1
            /\ x.r1 # Zero32
            /\ x.dep2 = "Ok"
            /\ x.r2 # x.r1
            /\ is_known_root(x.s2.pool.merkle_tree, x.r1)
            /\ is_known_root(x.s2.pool.merkle_tree, x.r2)
            /\ x.wd1 = "Ok"
            /\ x.s3.lamports[recipient] = denomination
            /\ n1 \in RangeOf(x.s3.pool.nullifier_hashes)
            /\ x.wd2 = "NullifierAlreadyUsed"
            /\ x.s4 = x.s3

\* C21 as stated: the scenario runs through with a pool of denomination
\* 1_000_000
C21_AsStated == ScenarioHolds(1000000)

\* C21: the scenario runs through with a pool of denomination 100_000_000
\* (POOL_0_1_SOL): creation succeeds, the first deposit gives next_index = 1
\* and a non-zero root r1, the second a different root r2 with both known,
\* the withdraw on r1 with fee 0 pays the recipient the denomination and
\* registers n1, and the repeated withdraw fails with NullifierAlreadyUsed
\* and changes nothing.  Creating a pool of denomination 1_000_000 fails
\* with InvalidDenomination, and no pool ever has that denomination.
C21_Scenario ==
    /\ ScenarioHolds(POOL_0_1_SOL)
    /\ mixer_initialize_pool(UninitializedPool, Admin, 1000000).result = "InvalidDenomination"
    /\ pool.is_initialized => pool.denomination = POOL_0_1_SOL
    /\ (last.op = "initialize_pool" /\ last.result = "Ok") => pool.is_initialized

\* the running ledger is in the state the scenario ends in, the repeated
\* withdraw just refused
C21_Witness ==
    /\ last = [op |-> "withdraw", result |-> "NullifierAlreadyUsed", gate |-> "none"]
    /\ LET x == Scenario(POOL_0_1_SOL, Commitment1, Commitment1, N1, "A")
       IN  pool = x.s4.pool /\ lamports = x.s4.lamports

(***************************************************************************)
(* C22: registry uniqueness                                                *)
(***************************************************************************)
NoDuplicates(hashes) == Cardinality(RangeOf(hashes)) = Len(hashes)

\* C22: no value occurs twice in the mixer pool's nullifier_hashes nor in
\* the private-transfer NullifierSet, a private_transfer whose
\* input_nullifiers names the same nullifier twice included
C22_RegistryUnique ==
    /\ NoDuplicates(pool.nullifier_hashes)
    /\ NoDuplicates(nullifier_set.nullifiers)

(***************************************************************************)
(* C23: the stubbed proof verifier                                         *)
(***************************************************************************)
\* the requests that reach proof verification: the pool exists and is
\* active, the nullifier is unused and the root is known
ReachVerification ==
    {q \in WithdrawRequests :
        /\ pool.is_initialized /\ pool.is_active
        /\ q.nullifier_hash \notin RangeOf(pool.nullifier_hashes)
        /\ q.root # Zero32 /\ q.root \in RangeOf(pool.merkle_tree.root_history)}

PassesVerification(res) == res.gate = "passed" /\ res.result # "InvalidProof"

\* C23 as stated: for a known root and an unused nullifier, withdraw passes
\* proof verification exactly when at least one byte of the proof (a, b, c)
\* is non-zero
C23_AsStated ==
    \A q \in ReachVerification :
        PassesVerification(WithdrawOf(pool, lamports, q))
            <=> (q.proof.a # 0 \/ q.proof.b # 0 \/ q.proof.c # 0)

\* C23: for a known root and an unused nullifier, the mixer's withdraw passes
\* proof verification exactly when none of the three components a, b, c of
\* the proof is all zero; a proof with one all-zero component is refused
\* with InvalidProof and changes nothing.  velo's verifier accepts every
\* proof.
C23_StubVerifier ==
    /\ \A q \in ReachVerification :
          LET res == WithdrawOf(pool, lamports, q)
          IN  /\ PassesVerification(res)
                     <=> (q.proof.a # 0 /\ q.proof.b # 0 /\ q.proof.c # 0)
              /\ ~PassesVerification(res) =>
                     /\ res.result = "InvalidProof"
                     /\ MixerAfter(res) = [pool |-> pool, lamports |-> lamports]
    /\ \A proof \in ZKProofs, q \in WithdrawRequests :
          velo_verify_proof(proof, q.root, q.nullifier_hash, q.recipient,
                            VeloDenomination)

\* a withdraw has just been refused with InvalidProof, and a proof that is
\* not all zero but has an all-zero component is refused in this state
C23_Witness ==
    /\ last.op = "withdraw" /\ last.result = "InvalidProof"
    /\ \E q \in ReachVerification :
          /\ q.proof.a = 0 /\ q.proof.b # 0
          /\ WithdrawOf(pool, lamports, q).result = "InvalidProof"

(***************************************************************************)
(* C24: the pause flag                                                     *)
(***************************************************************************)
\* C24: while pool.is_active is false every deposit and every withdraw fails
\* with PoolInactive and changes nothing; set_pool_status succeeds only for
\* the pool's authority and changes nothing but the flag, so that after the
\* flag is set back deposits and withdrawals meet the accumulator, the root
\* history and the nullifier registry of before the pause; no other
\* instruction changes the flag
C24_Pause ==
    pool.is_initialized =>
        /\ ~pool.is_active =>
              /\ \A depositor \in {Depositor, Admin}, commitment \in Commitments :
                    LET res == mixer_deposit(pool, lamports, depositor, commitment)
                    IN  /\ res.result = "PoolInactive"
                        /\ MixerAfter(res) = [pool |-> pool, lamports |-> lamports]
              /\ \A q \in WithdrawRequests :
                    LET res == WithdrawOf(pool, lamports, q)
                    IN  /\ res.result = "PoolInactive"
                        /\ MixerAfter(res) = [pool |-> pool, lamports |-> lamports]
        /\ \A signer \in {Admin, "A", Depositor}, is_active \in BOOLEAN :
              LET res == mixer_set_pool_status(pool, signer, is_active)
              IN  /\ res.result = "Ok" <=> signer = pool.authority
                  /\ res.result = "Ok" =>
                         res.pool = [pool EXCEPT !.is_active = is_active]
                  /\ res.result # "Ok" => res.pool = pool
        /\ \A depositor \in {Depositor, Admin}, commitment \in Commitments :
              MixerAfter(mixer_deposit(pool, lamports, depositor, commitment)).pool.is_active
                  = pool.is_active
        /\ \A q \in WithdrawRequests :
              MixerAfter(WithdrawOf(pool, lamports, q)).pool.is_active = pool.is_active
        /\ \A denomination \in MixerDenominations :
              Committed(mixer_initialize_pool(pool, Admin, denomination),
                        [pool |-> pool]).pool = pool

\* a paused pool with a deposit and a withdrawal behind it has just refused
\* an instruction
C24_Witness ==
    /\ pool.is_initialized /\ ~pool.is_active
    /\ last.op \in {"deposit", "withdraw"} /\ last.result = "PoolInactive"
    /\ pool.total_deposits >= 1 /\ Len(pool.nullifier_hashes) >= 1

DepositOps == {"deposit", "confidential_deposit"}

\* C26: total_deposits grows by exactly 1 on every successful deposit and
\* confidential_deposit, and is left as it is by every failed deposit and
\* by every other instruction; it never decreases
C26_DepositCount ==
    [][/\ pool'.total_deposits \in {pool.total_deposits, pool.total_deposits + 1}
       /\ velo_pool'.total_deposits
              \in {velo_pool.total_deposits, velo_pool.total_deposits + 1}
       /\ slot' # slot =>
              /\ pool'.total_deposits = pool.total_deposits
              /\ velo_pool'.total_deposits = velo_pool.total_deposits
       /\ (slot' = slot /\ program = "velo_mixer") =>
              (pool'.total_deposits = pool.total_deposits + 1
                  <=> (last'.op \in DepositOps /\ last'.result = "Ok"))
       /\ (slot' = slot /\ program \in {"velo", "velo_decoy"}) =>
              (velo_pool'.total_deposits = velo_pool.total_deposits + 1
                  <=> (last'.op \in DepositOps /\ last'.result = "Ok"))
      ]_vars

\* a confidential deposit has just been counted after an earlier deposit,
\* and the vault has paid out in between
C26_Witness ==
    /\ last.op = "confidential_deposit" /\ last.result = "Ok"
    /\ velo_pool.total_deposits = 2
    /\ payouts >= 1

(***************************************************************************)
(* C27: the incremental root is the root of the full tree                  *)
(***************************************************************************)
\* node idx of the given level in the full binary tree whose first
\* Len(leaves) leaves are `leaves` and whose other leaves are zero
RECURSIVE FullTreeNode(_, _, _)
FullTreeNode(leaves, level, idx) ==
    IF level = 0
    THEN IF idx < Len(leaves) THEN leaves[idx + 1] ELSE Zero32
    ELSE hash_pair(FullTreeNode(leaves, level - 1, 2 * idx),
                   FullTreeNode(leaves, level - 1, 2 * idx + 1))

FullTreeRoot(leaves) == FullTreeNode(leaves, MERKLE_TREE_DEPTH, 0)

\* C27: after the leaves l_0..l_{n-1} have been inserted (n <= 2^D), every
\* root insert has recorded is the root of the full depth-D tree over the
\* leaves inserted so far, padded with zero leaves, and zeros[i] is the root
\* of the empty subtree of height i
C27_IncrementalRoot ==
    /\ Len(roots_produced) = Len(leaves_inserted)
    /\ Len(leaves_inserted) <= Pow2(MERKLE_TREE_DEPTH)
    /\ \A n \in 1..Len(leaves_inserted) :
          roots_produced[n] = FullTreeRoot(SubSeq(leaves_inserted, 1, n))
    /\ Len(leaves_inserted) >= 1 =>
          get_current_root(pool.merkle_tree) = FullTreeRoot(leaves_inserted)
    /\ \A i \in 0..MERKLE_TREE_DEPTH :
          pool.merkle_tree.zeros[i] = FullTreeNode(<<>>, i, 0)

\* the tree is full, filled with leaves that are not all the same
C27_Witness ==
    /\ Len(leaves_inserted) = Pow2(MERKLE_TREE_DEPTH)
    /\ pool.merkle_tree.next_index = Pow2(MERKLE_TREE_DEPTH)
    /\ Cardinality(RangeOf(leaves_inserted)) = Cardinality(TreeLeaves)
    /\ get_current_root(pool.merkle_tree) = FullTreeRoot(leaves_inserted)

(***************************************************************************)
(* C28: what one insert does to the tree                                   *)
(***************************************************************************)
\* C28: an insert returns the value next_index had before the call, raises
\* next_index by exactly 1, moves current_root_index to (old + 1) mod K,
\* writes the new root into that slot and leaves the other K-1 slots as they
\* were; after at least one insert get_current_root is the root produced by
\* the most recent insert
C28_InsertStep ==
    /\ pool.merkle_tree.next_index < Pow2(MERKLE_TREE_DEPTH) =>
          \A leaf \in TreeLeaves :
              LET tree == pool.merkle_tree
                  ins == MerkleTree_insert(tree, leaf)
                  slot_written == (tree.current_root_index + 1) % ROOT_HISTORY_SIZE
                  new_root == FullTreeRoot(Append(leaves_inserted, leaf))
              IN  /\ ins.index = tree.next_index
                  /\ ins.tree.next_index = tree.next_index + 1
                  /\ ins.tree.current_root_index = slot_written
                  /\ ins.tree.root_history[slot_written] = new_root
                  /\ \A i \in 0..(ROOT_HISTORY_SIZE - 1) :
                        i # slot_written =>
                            ins.tree.root_history[i] = tree.root_history[i]
                  /\ get_current_root(ins.tree) = new_root
    /\ pool.merkle_tree.next_index = Len(leaves_inserted)
    /\ pool.merkle_tree.current_root_index = Len(leaves_inserted) % ROOT_HISTORY_SIZE
    /\ Len(leaves_inserted) >= 1 =>
          get_current_root(pool.merkle_tree) = FullTreeRoot(leaves_inserted)

\* the history ring has wrapped around: more than K inserts were made and
\* the next one overwrites a root again
C28_Witness ==
    /\ last.op = "insert"
    /\ Len(leaves_inserted) > ROOT_HISTORY_SIZE
    /\ pool.merkle_tree.next_index < Pow2(MERKLE_TREE_DEPTH)
    /\ get_current_root(pool.merkle_tree) = FullTreeRoot(leaves_inserted)

(***************************************************************************)
(* C29: root expiry                                                        *)
(***************************************************************************)
\* the withdraw requests that name the i-th root the pool has produced
NamingRoot(i) == {q \in WithdrawRequests : q.root = roots_produced[i]}

\* the roots that K or more deposits have followed
ExpiredRoots ==
    {i \in 1..Len(roots_produced) : Len(roots_produced) - i >= ROOT_HISTORY_SIZE}

\* C29 as stated: once K or more deposits have followed the deposit that
\* produced r, every withdraw that names r fails with InvalidMerkleRoot
C29_AsStated ==
    pool.is_initialized =>
        \A i \in ExpiredRoots : \A q \in NamingRoot(i) :
            WithdrawOf(pool, lamports, q).result = "InvalidMerkleRoot"

\* C29: the roots a pool produces are distinct; once K or more deposits have
\* followed the deposit that produced r, r is not in the history, in this
\* and (the number of deposits only growing) in every later state, and a
\* withdraw that names r fails and changes nothing: with InvalidMerkleRoot
\* when the pool is active and the nullifier unused, with PoolInactive on a
\* paused pool, with NullifierAlreadyUsed for a used nullifier.  While fewer
\* than K deposits have followed, r is known.
C29_RootExpiry ==
    pool.is_initialized =>
        /\ RootsDistinct
        /\ Len(roots_produced) = pool.total_deposits
        /\ \A i \in ExpiredRoots :
              /\ roots_produced[i] \notin RangeOf(pool.merkle_tree.root_history)
              /\ \A q \in NamingRoot(i) :
                    LET res == WithdrawOf(pool, lamports, q)
                    IN  /\ res.result =
                               IF ~pool.is_active THEN "PoolInactive"
                               ELSE IF q.nullifier_hash \in RangeOf(pool.nullifier_hashes)
                               THEN "NullifierAlreadyUsed"
                               ELSE "InvalidMerkleRoot"
                        /\ MixerAfter(res) = [pool |-> pool, lamports |-> lamports]
        /\ \A i \in (1..Len(roots_produced)) \ ExpiredRoots :
              /\ roots_produced[i] # Zero32
              /\ roots_produced[i] \in RangeOf(pool.merkle_tree.root_history)

\* two roots have expired, the vault is funded, and a withdraw has just been
\* refused with InvalidMerkleRoot
C29_Witness ==
    /\ last.op = "withdraw" /\ last.result = "InvalidMerkleRoot"
    /\ pool.is_active
    /\ Cardinality(ExpiredRoots) >= 2
    /\ lamports["pool_vault"] >= pool.denomination

(***************************************************************************)
(* C30: one root, many withdrawals                                         *)
(***************************************************************************)
\* pairs of requests that name the same known root with two distinct unused
\* nullifiers and accepted proofs
SameRootPairs ==
    {pair \in GateReady \X GateReady :
        /\ pair[1].root = pair[2].root
        /\ pair[1].nullifier_hash # pair[2].nullifier_hash}

\* C30 as stated: two withdraws that name the same known root with two
\* distinct unused nullifiers and accepted proofs both succeed, in either
\* order
C30_AsStated ==
    pool.is_initialized =>
        \A pair \in SameRootPairs :
            LET x == MixerPair(pair[1], pair[2])
            IN  x.first = "Ok" /\ x.second = "Ok"

\* C30: on an active pool whose vault holds two denominations, two withdraws
\* that name the same known root with two distinct unused nullifiers,
\* accepted proofs and fees not above the denomination both succeed, in
\* either order, and both nullifiers are registered; a successful withdraw
\* leaves the tree and its root history as they were, so every known root
\* stays known
C30_SharedRoot ==
    pool.is_initialized =>
        /\ (pool.is_active /\ lamports["pool_vault"] >= 2 * pool.denomination) =>
              \A pair \in SameRootPairs :
                  (pair[1].fee <= pool.denomination /\ pair[2].fee <= pool.denomination) =>
                      LET x == MixerPair(pair[1], pair[2])
                      IN  /\ x.first = "Ok" /\ x.second = "Ok"
                          /\ x.final.pool.nullifier_hashes =
                                 pool.nullifier_hashes \o
                                     <<pair[1].nullifier_hash, pair[2].nullifier_hash>>
                          /\ x.final.pool.merkle_tree = pool.merkle_tree
        /\ \A q \in WithdrawRequests :
              LET res == WithdrawOf(pool, lamports, q)
              IN  res.result = "Ok" =>
                      /\ res.pool.merkle_tree = pool.merkle_tree
                      /\ \A root \in RootCandidates :
                            (root # Zero32 /\ root \in RangeOf(pool.merkle_tree.root_history))
                                => (root \in RangeOf(res.pool.merkle_tree.root_history))

\* the vault holds two deposits, no nullifier is used yet, and two withdraws
\* naming the oldest known root succeed one after the other, the second
\* leaving the root known
C30_Witness ==
    /\ pool.is_initialized /\ pool.is_active
    /\ pool.total_deposits = 2 /\ pool.nullifier_hashes = <<>>
    /\ lamports["pool_vault"] = 2 * pool.denomination
    /\ \E pair \in SameRootPairs :
          LET x == MixerPair(pair[1], pair[2])
          IN  /\ pair[1].root = roots_produced[1]
              /\ x.first = "Ok" /\ x.second = "Ok"
              /\ x.final.pool.total_withdrawals = 2
              /\ x.final.lamports["pool_vault"] = 0
              /\ is_known_root(x.final.pool.merkle_tree, pair[1].root)

(***************************************************************************)
(* C31: accumulator and registry are independent                           *)
(***************************************************************************)
\* C31: a withdraw, successful or not, leaves the tree (next_index,
\* filled_subtrees, root_history, current_root_index) and total_deposits as
\* they were; a deposit leaves the nullifier registry and total_withdrawals
\* as they were; set_pool_status and a repeated initialize_pool change none
\* of them
C31_Independent ==
    pool.is_initialized =>
        /\ \A q \in WithdrawRequests :
              LET res == WithdrawOf(pool, lamports, q)
              IN  /\ res.pool.merkle_tree = pool.merkle_tree
                  /\ res.pool.total_deposits = pool.total_deposits
                  /\ MixerAfter(res).pool.merkle_tree = pool.merkle_tree
                  /\ MixerAfter(res).pool.total_deposits = pool.total_deposits
        /\ \A depositor \in {Depositor, Admin}, commitment \in Commitments :
              LET res == mixer_deposit(pool, lamports, depositor, commitment)
              IN  /\ res.pool.nullifier_hashes = pool.nullifier_hashes
                  /\ res.pool.total_withdrawals = pool.total_withdrawals
        /\ \A signer \in {Admin, "A"}, is_active \in BOOLEAN :
              LET res == mixer_set_pool_status(pool, signer, is_active)
              IN  /\ res.pool.merkle_tree = pool.merkle_tree
                  /\ res.pool.total_deposits = pool.total_deposits
                  /\ res.pool.nullifier_hashes = pool.nullifier_hashes
                  /\ res.pool.total_withdrawals = pool.total_withdrawals
        /\ \A denomination \in MixerDenominations :
              Committed(mixer_initialize_pool(pool, Admin, denomination),
                        [pool |-> pool]).pool = pool

\* a deposit has just succeeded on a pool whose registry already holds a
\* nullifier
C31_Witness ==
    /\ last.op = "deposit" /\ last.result = "Ok"
    /\ pool.nullifier_hashes # <<>>
    /\ pool.total_withdrawals >= 1
    /\ pool.merkle_tree.next_index >= 2

(***************************************************************************)
(* C32: the life of a stealth announcement                                 *)
(***************************************************************************)
\* C32: an announcement (velo_stealth) or stealth payment record (velo) is
\* created with claimed = false; its claimed flag changes only from false to
\* true and only in a successful claim; the record is never deleted, and its
\* sender, recipient, stealth address, ephemeral key and amount never change
\* after creation
C32_Lifecycle ==
    [][/\ \A id \in AnnouncementIds :
             /\ announcement[id].is_initialized =>
                   /\ announcement'[id] =
                          [announcement[id] EXCEPT !.claimed = announcement'[id].claimed]
                   /\ announcement[id].claimed => announcement'[id].claimed
                   /\ announcement'[id].claimed # announcement[id].claimed =>
                          (last'.op = "claim_stealth_funds" /\ last'.result = "Ok")
             /\ (~announcement[id].is_initialized /\ announcement'[id].is_initialized) =>
                   /\ ~announcement'[id].claimed
                   /\ last'.op = "announce_payment" /\ last'.result = "Ok"
       /\ \A h \in StealthHashes :
             /\ stealth_payment[h].is_initialized =>
                   /\ stealth_payment'[h] =
                          [stealth_payment[h] EXCEPT !.claimed = stealth_payment'[h].claimed]
                   /\ stealth_payment[h].claimed => stealth_payment'[h].claimed
                   /\ stealth_payment'[h].claimed # stealth_payment[h].claimed =>
                          (last'.op = "claim_stealth" /\ last'.result = "Ok")
             /\ (~stealth_payment[h].is_initialized /\ stealth_payment'[h].is_initialized) =>
                   /\ ~stealth_payment'[h].claimed
                   /\ last'.op = "withdraw_to_stealth" /\ last'.result = "Ok"
      ]_vars

\* a second announcement for an account that already holds a claimed
\* announcement has just been refused
C32_Witness ==
    /\ last.op = "announce_payment" /\ last.result = "AccountAlreadyInUse"
    /\ \E id \in AnnouncementIds :
          announcement[id].is_initialized /\ announcement[id].claimed

(***************************************************************************)
(* C33: the guards of shuffle                                              *)
(***************************************************************************)
\* every shuffle a caller can submit
AllShuffleRequests ==
    [decoy_index : DecoyIndexes, amount : ShuffleAmounts, direction : BOOLEAN]

\* C33 as stated: a shuffle fails with DecoySystemDisabled when the decoy
\* config is not enabled and with InvalidDecoyVaultIndex when decoy_index >=
\* num_decoy_vaults, moving no funds; num_decoy_vaults <= 8
C33_AsStated ==
    /\ decoy_config.num_decoy_vaults <= 8
    /\ \A q \in AllShuffleRequests :
          LET res == ShuffleOf(VeloState, q)
          IN  /\ ~decoy_config.enabled =>
                    /\ res.result = "DecoySystemDisabled"
                    /\ VeloAfter(res).lamports = lamports
              /\ (decoy_config.enabled /\ q.decoy_index >= decoy_config.num_decoy_vaults) =>
                    /\ res.result = "InvalidDecoyVaultIndex"
                    /\ VeloAfter(res).lamports = lamports

\* C33: before init_decoy_system a shuffle fails with AccountNotInitialized;
\* init_decoy_system clamps the number of vaults to 8 and sets enabled, and
\* no instruction clears the flag, so every config that exists is enabled;
\* on such a config a shuffle with decoy_index >= num_decoy_vaults fails with
\* InvalidDecoyVaultIndex, and on a config whose flag were false it would
\* fail with DecoySystemDisabled; in each case nothing is moved or changed
C33_Guards ==
    /\ decoy_config.num_decoy_vaults <= 8
    /\ decoy_config.is_initialized => (decoy_config.enabled /\ velo_pool.is_initialized)
    /\ \A q \in AllShuffleRequests :
          LET res == ShuffleOf(VeloState, q)
              off == [VeloState EXCEPT !.decoy_config.enabled = FALSE]
              res_off == ShuffleOf(off, q)
          IN  /\ ~decoy_config.is_initialized =>
                    /\ res.result = "AccountNotInitialized"
                    /\ res.state = VeloState
              /\ (decoy_config.is_initialized
                    /\ q.decoy_index >= decoy_config.num_decoy_vaults) =>
                    /\ res.result = "InvalidDecoyVaultIndex"
                    /\ res.state = VeloState
              /\ decoy_config.is_initialized =>
                    /\ res_off.result = "DecoySystemDisabled"
                    /\ res_off.state = off

\* a shuffle naming a decoy vault the config does not have has just been
\* refused, the main vault being funded
C33_Witness ==
    /\ last.op = "shuffle" /\ last.result = "InvalidDecoyVaultIndex"
    /\ decoy_config.enabled
    /\ decoy_config.num_decoy_vaults = 1
    /\ lamports["velo_vault"] >= 100

(***************************************************************************)
(* C34: the shuffle counters                                               *)
(***************************************************************************)
\* C34: total_shuffles and last_shuffle_slot start at 0; a successful
\* shuffle raises total_shuffles by exactly 1 and sets last_shuffle_slot to
\* the current ledger height; a failed shuffle and every other instruction
\* change neither; last_shuffle_slot never decreases
C34_ShuffleCounters ==
    [][/\ (~decoy_config.is_initialized /\ decoy_config'.is_initialized) =>
              /\ decoy_config'.total_shuffles = 0
              /\ decoy_config'.last_shuffle_slot = 0
       /\ decoy_config.is_initialized =>
              /\ decoy_config'.last_shuffle_slot >= decoy_config.last_shuffle_slot
              /\ decoy_config'.last_shuffle_slot <= slot'
              /\ slot' # slot => decoy_config' = decoy_config
              /\ slot' = slot =>
                    IF last'.op = "shuffle" /\ last'.result = "Ok"
                    THEN /\ decoy_config'.total_shuffles = decoy_config.total_shuffles + 1
                         /\ decoy_config'.last_shuffle_slot = slot
                    ELSE /\ decoy_config'.total_shuffles = decoy_config.total_shuffles
                         /\ decoy_config'.last_shuffle_slot = decoy_config.last_shuffle_slot
      ]_vars

\* the second successful shuffle has just been made, later than the first
C34_Witness ==
    /\ last.op = "shuffle" /\ last.result = "Ok"
    /\ decoy_config.total_shuffles = 2
    /\ decoy_config.last_shuffle_slot = slot
    /\ slot >= 6

(***************************************************************************)
(* C35: relayer accounting                                                 *)
(***************************************************************************)
\* C35: a relayer's total_relayed and total_fees start at 0 on registration;
\* every successful relayer withdrawal raises the total_relayed of the
\* relayer that submitted it by 1 and its total_fees by the fee it was paid,
\* and nothing else changes them, so that total_relayed counts the relayer's
\* successful withdrawals and total_fees sums its fees
C35_RelayerAccounting ==
    [][/\ \A r \in VeloSigners :
             (~relayer_state[r].is_initialized /\ relayer_state'[r].is_initialized) =>
                 /\ relayer_state'[r].total_relayed = 0
                 /\ relayer_state'[r].total_fees = 0
       /\ (last'.op = "relayer_withdraw" /\ last'.result = "Ok"
             /\ payouts' = payouts + 1) =>
             \E r \in VeloSigners :
                 /\ relayer_state[r].is_initialized
                 /\ relayer_state'[r].total_relayed = relayer_state[r].total_relayed + 1
                 /\ relayer_state'[r].total_fees >= relayer_state[r].total_fees
                 /\ \A other \in VeloSigners \ {r} :
                       relayer_state'[other] = relayer_state[other]
       /\ ~(last'.op = "relayer_withdraw" /\ last'.result = "Ok"
              /\ payouts' = payouts + 1) =>
             \A r \in VeloSigners :
                 relayer_state[r].is_initialized =>
                     /\ relayer_state'[r].total_relayed = relayer_state[r].total_relayed
                     /\ relayer_state'[r].total_fees = relayer_state[r].total_fees
      ]_vars

(***************************************************************************)
(* C36: the order of the guards of withdraw                                *)
(***************************************************************************)
\* the guards of withdraw that request q fails, in the order of the claim
FailedGuards(q) ==
    SelectSeq(<<[code |-> "PoolInactive", failed |-> ~pool.is_active],
                [code |-> "NullifierAlreadyUsed",
                 failed |-> q.nullifier_hash \in RangeOf(pool.nullifier_hashes)],
                [code |-> "InvalidMerkleRoot",
                 failed |-> q.root = Zero32
                            \/ q.root \notin RangeOf(pool.merkle_tree.root_history)],
                [code |-> "InvalidProof",
                 failed |-> q.proof.a = 0 \/ q.proof.b = 0 \/ q.proof.c = 0],
                [code |-> "FeeExceedsDenomination", failed |-> q.fee > pool.denomination]>>,
              LAMBDA g : g.failed)

\* C36: on a pool that exists, withdraw reports the first guard that fails
\* in the order PoolInactive, NullifierAlreadyUsed, InvalidMerkleRoot,
\* InvalidProof, FeeExceedsDenomination, and none of these when all hold; a
\* used nullifier with an unknown root yields NullifierAlreadyUsed, and an
\* unused nullifier with an unknown root and an all-zero proof yields
\* InvalidMerkleRoot
C36_GuardOrder ==
    pool.is_initialized =>
        \A q \in WithdrawRequests :
            LET res == WithdrawOf(pool, lamports, q)
                failed == FailedGuards(q)
            IN  IF failed # <<>>
                THEN res.result = failed[1].code
                ELSE res.result \in {"Ok", "InsufficientFunds"}

\* on an active pool with a used nullifier, a request that fails several
\* guards at once is refused with the first of them, and a withdraw has just
\* been refused with FeeExceedsDenomination, the last of them
C36_Witness ==
    /\ last.op = "withdraw" /\ last.result = "FeeExceedsDenomination"
    /\ pool.is_active /\ pool.nullifier_hashes # <<>>
    /\ \E q \in WithdrawRequests :
          /\ Len(FailedGuards(q)) >= 3
          /\ WithdrawOf(pool, lamports, q).result = "NullifierAlreadyUsed"

(***************************************************************************)
(* C37: the registry counts the withdrawals and is append-only             *)
(***************************************************************************)
\* C37: in every state of a mixer pool the number of recorded nullifier
\* hashes equals total_withdrawals, and every step keeps the recorded hashes
\* where they are: the registry after a step starts with the registry before
\* it, extended by one hash exactly in a successful withdraw
C37_RegistryCount ==
    [][/\ Len(pool.nullifier_hashes) = pool.total_withdrawals
       /\ Len(pool'.nullifier_hashes) = pool'.total_withdrawals
       /\ pool.is_initialized =>
             /\ Len(pool'.nullifier_hashes) >= Len(pool.nullifier_hashes)
             /\ SubSeq(pool'.nullifier_hashes, 1, Len(pool.nullifier_hashes))
                    = pool.nullifier_hashes
             /\ Len(pool'.nullifier_hashes) =
                    IF last'.op = "withdraw" /\ last'.result = "Ok"
                    THEN Len(pool.nullifier_hashes) + 1
                    ELSE Len(pool.nullifier_hashes)
      ]_vars

\* the second withdrawal has just been recorded behind the first
C37_Witness ==
    /\ last.op = "withdraw" /\ last.result = "Ok"
    /\ Len(pool.nullifier_hashes) = 2
    /\ pool.total_withdrawals = 2
    /\ pool.nullifier_hashes[1] # pool.nullifier_hashes[2]

(***************************************************************************)
(* C38: leaf count and deposit counter agree                               *)
(***************************************************************************)
\* C38: in every state next_index equals total_deposits, for the mixer pool
\* (the tree's next_index) and for the velo pool, confidential deposits
\* included; for the mixer both equal the number of leaves inserted
C38_IndexIsCount ==
    /\ pool.merkle_tree.next_index = pool.total_deposits
    /\ velo_pool.next_index = velo_pool.total_deposits
    /\ program = "velo_mixer" => pool.total_deposits = Len(leaves_inserted)
    /\ Cardinality(confidential_note) <= velo_pool.total_deposits

\* a plain deposit has just followed a confidential one
C38_Witness ==
    /\ last.op = "deposit" /\ last.result = "Ok"
    /\ velo_pool.next_index = 2 /\ velo_pool.total_deposits = 2
    /\ confidential_note # {}

(***************************************************************************)
(* C39: pool solvency                                                      *)
(***************************************************************************)
\* C39: in every state of the mixer pool total_withdrawals <= total_deposits,
\* the vault balance left from the deposits is not negative, and no withdraw
\* succeeds on a pool that has had no deposit
C39_Solvent ==
    /\ pool.total_withdrawals <= pool.total_deposits
    /\ lamports["pool_vault"] >= 0
    /\ lamports["pool_vault"] <= pool.denomination * pool.total_deposits
    /\ pool.total_deposits = 0 =>
         \A q \in WithdrawRequests \cup BoundaryWithdrawRequests :
            WithdrawOf(pool, lamports, q).result # "Ok"

\* the parts of the solvency statement that do hold: the vault is never
\* overdrawn and an empty pool pays nothing
C39_VaultNotOverdrawn ==
    /\ lamports["pool_vault"] >= 0
    /\ lamports["pool_vault"] <= pool.denomination * pool.total_deposits
    /\ pool.total_deposits = 0 =>
         \A q \in WithdrawRequests \cup BoundaryWithdrawRequests :
            WithdrawOf(pool, lamports, q).result # "Ok"

====
